---- MODULE Spec2Model ----
(***************************************************************************)
(* The HTTP front end of rust-agent (src/server/mod.rs, src/server/types.rs) *)
(* as a state machine: the accept loop, the request decoder, the API-key   *)
(* check, path dispatch and the chat handler.                              *)
(*                                                                         *)
(* Text is modelled character by character: a string is a sequence of      *)
(* one-character strings, so that lines(), split_whitespace(), split(':'), *)
(* trim(), to_lowercase(), starts_with() and parse::<i32>() are computed   *)
(* as the Rust standard library computes them.  An Option<T> is a sequence *)
(* of length 0 (None) or 1 (Some).                                         *)
(***************************************************************************)
EXTENDS Integers, Sequences, FiniteSets, TLC

\* ------------------------------------------------------------------ bounds
\* most header lines in a generated request
MaxHeaders == 2
\* most chat_history entries in a generated chat body
MaxHistory == 2
MaxConns == 2
MaxNodes == 2
MaxMetrics == 2
\* most calls of get_node_metrics_with_usage in a run
MaxCalls == 2

\* ------------------------------------------------------- program constants
\* handle_client's read buffer
BufferSize == 100000
\* i32::MAX: content_length is an i32 (integer literal fallback)
I32Max == 2147483647

\* ------------------------------------------------------------------ Option
None == <<>>
Some(x) == <<x>>
IsSome(o) == Len(o) = 1
Unwrap(o) == o[1]

\* ------------------------------------------------------- characters, text
CR == "\r"
LF == "\n"
CRLF == <<CR, LF>>
Colon == ":"

\* char::is_whitespace on the characters the model uses
IsWhitespace(c) == c \in {" ", "\t", CR, LF}

Upper == <<"A", "B", "C", "D", "E", "F", "G", "H", "I", "J", "K", "L", "M",
           "N", "O", "P", "Q", "R", "S", "T", "U", "V", "W", "X", "Y", "Z">>
Lower == <<"a", "b", "c", "d", "e", "f", "g", "h", "i", "j", "k", "l", "m",
           "n", "o", "p", "q", "r", "s", "t", "u", "v", "w", "x", "y", "z">>

\* char::to_lowercase
LowerChar(c) ==
    IF \E i \in 1..26 : Upper[i] = c
    THEN Lower[CHOOSE i \in 1..26 : Upper[i] = c]
    ELSE c

\* str::to_lowercase
to_lowercase(s) == [i \in 1..Len(s) |-> LowerChar(s[i])]

\* str::starts_with
starts_with(s, p) == Len(s) >= Len(p) /\ SubSeq(s, 1, Len(p)) = p

Min(a, b) == IF a < b THEN a ELSE b
SetMin(S) == CHOOSE x \in S : \A y \in S : x <= y
SetMax(S) == CHOOSE x \in S : \A y \in S : x >= y

\* str::trim: leading and trailing whitespace removed
RECURSIVE TrimStart(_)
TrimStart(s) ==
    IF s # <<>> /\ IsWhitespace(Head(s)) THEN TrimStart(Tail(s)) ELSE s

RECURSIVE TrimEnd(_)
TrimEnd(s) ==
    IF s # <<>> /\ IsWhitespace(s[Len(s)])
    THEN TrimEnd(SubSeq(s, 1, Len(s) - 1))
    ELSE s

trim(s) == TrimEnd(TrimStart(s))

\* str::split(c): the pieces between occurrences of c, empty pieces kept
RECURSIVE SplitAcc(_, _, _, _, _)
SplitAcc(s, c, i, cur, acc) ==
    IF i > Len(s) THEN Append(acc, cur)
    ELSE IF s[i] = c THEN SplitAcc(s, c, i + 1, <<>>, Append(acc, cur))
    ELSE SplitAcc(s, c, i + 1, Append(cur, s[i]), acc)

split(s, c) == SplitAcc(s, c, 1, <<>>, <<>>)

\* Iterator::nth(n) (n counted from 0)
nth(seq, n) == IF n + 1 <= Len(seq) THEN Some(seq[n + 1]) ELSE None

\* str::split_whitespace: the non-empty pieces between runs of whitespace
RECURSIVE SplitWsAcc(_, _, _, _)
SplitWsAcc(s, i, cur, acc) ==
    IF i > Len(s) THEN (IF cur = <<>> THEN acc ELSE Append(acc, cur))
    ELSE IF IsWhitespace(s[i])
         THEN SplitWsAcc(s, i + 1, <<>>,
                         IF cur = <<>> THEN acc ELSE Append(acc, cur))
         ELSE SplitWsAcc(s, i + 1, Append(cur, s[i]), acc)

split_whitespace(s) == SplitWsAcc(s, 1, <<>>, <<>>)

\* a line of str::lines with its "\n" already removed: one "\r" before it goes too
StripCR(l) ==
    IF l # <<>> /\ l[Len(l)] = CR THEN SubSeq(l, 1, Len(l) - 1) ELSE l

\* str::lines: split after every "\n"; a last piece without "\n" is kept as it
\* is (a bare "\r" at its end included), and there is no empty last piece.
\* Line k runs from after the (k-1)-th "\n" to before the k-th one
lines(s) ==
    LET nl     == {i \in 1..Len(s) : s[i] = LF}
        last   == IF s # <<>> /\ s[Len(s)] # LF THEN 1 ELSE 0
        nth_nl == [k \in 0..Cardinality(nl) |->
                      IF k = 0 THEN 0
                      ELSE CHOOSE p \in nl : Cardinality({q \in nl : q <= p}) = k]
    IN  [k \in 1..(Cardinality(nl) + last) |->
            IF k <= Cardinality(nl)
            THEN StripCR(SubSeq(s, nth_nl[k - 1] + 1, nth_nl[k] - 1))
            ELSE SubSeq(s, nth_nl[k - 1] + 1, Len(s))]

\* [T]::join(sep)
RECURSIVE join(_, _)
join(ls, sep) ==
    IF ls = <<>> THEN <<>>
    ELSE IF Len(ls) = 1 THEN ls[1]
    ELSE ls[1] \o sep \o join(Tail(ls), sep)

Digits == <<"0", "1", "2", "3", "4", "5", "6", "7", "8", "9">>
IsDigit(c) == \E d \in 1..10 : Digits[d] = c
DigitVal(c) == (CHOOSE d \in 1..10 : Digits[d] = c) - 1

\* i32 accumulation of the digits with checked_mul / checked_add
\* (checked_sub below zero): None on overflow
RECURSIVE AccumulateI32(_, _, _, _)
AccumulateI32(ds, i, r, negative) ==
    IF i > Len(ds) THEN Some(r)
    ELSE LET d == DigitVal(ds[i])
         IN  IF negative
             THEN IF (0 - r) > (I32Max - (IF d = 0 THEN 0 ELSE d - 1)) \div 10
                  THEN None
                  ELSE AccumulateI32(ds, i + 1, r * 10 - d, negative)
             ELSE IF r > (I32Max - d) \div 10
                  THEN None
                  ELSE AccumulateI32(ds, i + 1, r * 10 + d, negative)

\* str::parse::<i32>: an optional sign, then one or more ASCII digits, the
\* value within the 32-bit signed range; anything else is Err (None here)
parse_i32(s) ==
    LET signed == s # <<>> /\ s[1] \in {"+", "-"}
        ds     == IF signed THEN Tail(s) ELSE s
    IN  IF ds = <<>> \/ \E i \in 1..Len(ds) : ~IsDigit(ds[i]) THEN None
        ELSE AccumulateI32(ds, 1, 0, signed /\ s[1] = "-")

\* Result::unwrap_or
unwrap_or(o, d) == IF IsSome(o) THEN Unwrap(o) ELSE d

\* ------------------------------------------------------ server/types.rs
\* the string literals of server/types.rs, as texts
Str(s) ==
    CASE s = "GET" ->
           <<"G", "E", "T">>
      [] s = "POST" ->
           <<"P", "O", "S", "T">>
      [] s = "chat" ->
           <<"/", "c", "h", "a", "t">>
      [] s = "root" ->
           <<"/">>
      [] s = "favicon" ->
           <<"/", "f", "a", "v", "i", "c", "o", "n", ".", "i", "c", "o">>
      [] s = "x_api_key" ->
           <<"x", "-", "a", "p", "i", "-", "k", "e", "y", ":">>
      [] s = "content_length" ->
           <<"c", "o", "n", "t", "e", "n", "t", "-", "l", "e", "n", "g", "t", "h", ":">>
      [] s = "user" ->
           <<"u", "s", "e", "r">>
      [] s = "assistant" ->
           <<"a", "s", "s", "i", "s", "t", "a", "n", "t">>

\* a method match that ignores the case of the token
Method_from_str_nocase(s) ==
    IF to_lowercase(s) = to_lowercase(Str("GET")) THEN Some("GET")
    ELSE IF to_lowercase(s) = to_lowercase(Str("POST")) THEN Some("POST")
    ELSE None

\* Method::from_str: the token must be exactly GET or POST
Method_from_str(s) ==
    IF s = Str("GET") THEN Some("GET")
    ELSE IF s = Str("POST") THEN Some("POST")
    ELSE None

\* Path::from_str: the token must be exactly /chat, / or /favicon.ico
Path_from_str(s) ==
    IF s = Str("chat") THEN Some("Chat")
    ELSE IF s = Str("root") THEN Some("Root")
    ELSE IF s = Str("favicon") THEN Some("Favicon")
    ELSE None

\* an x-api-key branch that takes everything after the first colon as the key
ApiKeyAfter_whole_value(line, api_key) ==
    IF starts_with(to_lowercase(line), Str("x_api_key"))
    THEN LET cs == {i \in 1..Len(line) : line[i] = Colon}
         IN  Some(trim(SubSeq(line, SetMin(cs) + 1, Len(line))))
    ELSE api_key

\* the x-api-key branch of the header loop: the new value of api_key
ApiKeyAfter(line, api_key) ==
    IF starts_with(to_lowercase(line), Str("x_api_key"))
    THEN LET key_str == nth(split(line, Colon), 1)
         IN  IF IsSome(key_str) THEN Some(trim(Unwrap(key_str))) ELSE api_key
    ELSE api_key

\* a content-length branch in which the first positive value stays
ContentLengthAfter_first_positive(line, content_length) ==
    IF content_length > 0
    THEN content_length
    ELSE IF starts_with(to_lowercase(line), Str("content_length"))
    THEN LET len_str == nth(split(line, Colon), 1)
         IN  IF IsSome(len_str)
             THEN unwrap_or(parse_i32(trim(Unwrap(len_str))), 0)
             ELSE content_length
    ELSE content_length

\* the content-length branch of the header loop: the new value of content_length
ContentLengthAfter(line, content_length) ==
    IF starts_with(to_lowercase(line), Str("content_length"))
    THEN LET len_str == nth(split(line, Colon), 1)
         IN  IF IsSome(len_str)
             THEN unwrap_or(parse_i32(trim(Unwrap(len_str))), 0)
             ELSE content_length
    ELSE content_length

\* a header loop that does not stop at the empty line
RECURSIVE ParseHeaders_no_stop(_, _, _, _)
ParseHeaders_no_stop(ls, i, content_length, api_key) ==
    IF i > Len(ls)
    THEN [content_length |-> content_length, api_key |-> api_key, rest |-> i]
    ELSE ParseHeaders_no_stop(ls, i + 1,
                              ContentLengthAfter(ls[i], content_length),
                              ApiKeyAfter(ls[i], api_key))

\* the header loop "for line in lines.by_ref()": ls[i] is the next line of the
\* iterator.  It ends at the first empty line, which it consumes, or when the
\* lines run out; rest is the position of the first line left in the iterator
RECURSIVE ParseHeaders(_, _, _, _)
ParseHeaders(ls, i, content_length, api_key) ==
    IF i > Len(ls)
    THEN [content_length |-> content_length, api_key |-> api_key, rest |-> i]
    ELSE IF ls[i] = <<>>
    THEN [content_length |-> content_length, api_key |-> api_key, rest |-> i + 1]
    ELSE ParseHeaders(ls, i + 1,
                      ContentLengthAfter(ls[i], content_length),
                      ApiKeyAfter(ls[i], api_key))

\* a body extraction that takes a body for any content_length from 0 up
ExtractBody_from_zero(ls, h) ==
    IF h.content_length >= 0
    THEN Some(join(SubSeq(ls, h.rest, Len(ls)), <<LF>>))
    ELSE None

\* "Extract body if present": the lines left in the iterator, joined by "\n"
ExtractBody(ls, h) ==
    IF h.content_length > 0
    THEN Some(join(SubSeq(ls, h.rest, Len(ls)), <<LF>>))
    ELSE None

\* Request::parse
Request_parse(request_str) ==
    LET ls == lines(request_str)
    IN  IF ls = <<>> THEN None
        ELSE LET parts  == split_whitespace(ls[1])
                 first  == nth(parts, 0)
                 second == nth(parts, 1)
                 method == IF IsSome(first)
                           THEN Method_from_str(Unwrap(first)) ELSE None
                 path   == IF IsSome(second)
                           THEN Path_from_str(Unwrap(second)) ELSE None
                 h      == ParseHeaders(ls, 2, 0, None)
             IN  IF method = None THEN None
                 ELSE IF path = None THEN None
                 ELSE Some([method  |-> Unwrap(method),
                            path    |-> Unwrap(path),
                            body    |-> ExtractBody(ls, h),
                            api_key |-> h.api_key])

\* TryFrom<HttpMessage> for Message: Ok(message) as Some, Err as None
Message_try_from(value) ==
    IF value.role = Str("user")
    THEN Some([role |-> "user", content |-> value.content])
    ELSE IF value.role = Str("assistant")
    THEN Some([role |-> "assistant", content |-> value.content])
    ELSE None

\* ------------------------------------------- the JSON body of POST /chat
\* texts a client sends: request lines, header lines and bodies
Txt(s) ==
    CASE s = "admin" ->
           <<"a", "d", "m", "i", "n">>
      [] s = "hi" ->
           <<"h", "i">>
      [] s = "x" ->
           <<"x">>
      [] s = "no_prompt" ->
           <<"{", "\"", "c", "h", "a", "t", "_", "h", "i", "s", "t", "o", "r", "y", "\"", ":", "n", "u", "l", "l", "}">>
      [] s = "truncated" ->
           <<"{", "\"", "p", "r", "o", "m", "p", "t", "\"", ":", "\"", "h", "i", "\"">>
      [] s = "hdr_key" ->
           <<"X", "-", "A", "p", "i", "-", "K", "e", "y", ":", " ", "a", "b", "c">>
      [] s = "hdr_len" ->
           <<"C", "o", "n", "t", "e", "n", "t", "-", "L", "e", "n", "g", "t", "h", ":", " ", "5">>
      [] s = "hdr_len_big" ->
           <<"C", "o", "n", "t", "e", "n", "t", "-", "L", "e", "n", "g", "t", "h", ":", " ", "3", "0", "0", "0", "0", "0", "0", "0", "0", "0">>
      [] s = "line_post_chat" ->
           <<"P", "O", "S", "T", " ", "/", "c", "h", "a", "t", " ", "H", "T", "T", "P", "/", "1", ".", "1">>
      [] s = "body_1" ->
           <<"h", "i">>
      [] s = "body_2" ->
           <<"X", "-", "A", "p", "i", "-", "K", "e", "y", ":", " ", "a", "b", "c">>
      [] s = "body_3" ->
           <<"C", "o", "n", "t", "e", "n", "t", "-", "L", "e", "n", "g", "t", "h", ":", " ", "5">>
      [] s = "version" ->
           <<" ", "H", "T", "T", "P", "/", "1", ".", "1">>
      [] s = "post_chat" ->
           <<"P", "O", "S", "T", " ", "/", "c", "h", "a", "t">>
      [] s = "get_chat" ->
           <<"G", "E", "T", " ", "/", "c", "h", "a", "t">>

\* the pieces of the JSON text of a ChatRequest
ChatJson(s) ==
    CASE s = "open" ->
           <<"{", "\"", "p", "r", "o", "m", "p", "t", "\"", ":", "\"">>
      [] s = "hist" ->
           <<"\"", "c", "h", "a", "t", "_", "h", "i", "s", "t", "o", "r", "y", "\"", ":">>
      [] s = "null" ->
           <<"n", "u", "l", "l">>
      [] s = "role" ->
           <<"{", "\"", "r", "o", "l", "e", "\"", ":", "\"">>
      [] s = "content" ->
           <<"\"", ",", "\"", "c", "o", "n", "t", "e", "n", "t", "\"", ":", "\"">>
      [] s = "msg_end" ->
           <<"\"", "}">>

\* all sequences over S of length at most n
SeqsUpTo(S, n) == UNION {[1..k -> S] : k \in 0..n}

\* the HttpMessage values of the generated bodies; "admin" is no valid role
HttpMessages ==
    {[role |-> r, content |-> Txt("x")] : r \in {Str("user"), Str("assistant"), Txt("admin")}}

\* the JSON documents of the generated bodies: chat_history is left out,
\* null, or an array of at most MaxHistory messages
JsonDocs ==
    {[prompt |-> Txt("hi"), kind |-> k, items |-> <<>>] : k \in {"absent", "null"}}
    \cup {[prompt |-> Txt("hi"), kind |-> "array", items |-> h] :
             h \in SeqsUpTo(HttpMessages, MaxHistory)}

EncodeMessage(m) ==
    ChatJson("role") \o m.role \o ChatJson("content") \o m.content \o ChatJson("msg_end")

\* the text of a document; sep is the white space written after each comma
EncodeChat(doc, sep) ==
    ChatJson("open") \o doc.prompt \o <<"\"">>
    \o (IF doc.kind = "absent" THEN <<>>
        ELSE <<",">> \o sep \o ChatJson("hist")
             \o (IF doc.kind = "null" THEN ChatJson("null")
                 ELSE <<"[">>
                      \o join([i \in 1..Len(doc.items) |-> EncodeMessage(doc.items[i])],
                              <<",">> \o sep)
                      \o <<"]">>))
    \o <<"}">>

\* JSON white space between tokens is skipped by the decoder; no string of a
\* generated document contains white space
SkipWhitespace(s) == SelectSeq(s, LAMBDA c : ~IsWhitespace(c))

\* serde_json::from_str::<ChatRequest> on the generated bodies: Ok(chat_req)
\* as Some when the text is a document with a prompt, Err as None otherwise.
\* chat_history: Option<Vec<HttpMessage>> is None for a missing or null field
from_str(body_str) ==
    LET t == SkipWhitespace(body_str)
    IN  IF \E doc \in JsonDocs : EncodeChat(doc, <<>>) = t
        THEN LET doc == CHOOSE x \in JsonDocs : EncodeChat(x, <<>>) = t
             IN  Some([prompt       |-> doc.prompt,
                       chat_history |-> IF doc.kind = "array"
                                        THEN Some(doc.items) ELSE None])
        ELSE None

\* ----------------------------------------------- the requests clients send
\* values of the configured API key
Key(s) ==
    CASE s = "abc" ->
           <<"a", "b", "c">>
      [] s = "a:c" ->
           <<"a", ":", "c">>
GoodRequestLines ==
    { <<"G", "E", "T", " ", "/", " ", "H", "T", "T", "P", "/", "1", ".", "1">>,
      <<"P", "O", "S", "T", " ", "/", "c", "h", "a", "t">>,
      <<"G", "E", "T", " ", "/", "c", "h", "a", "t", " ", "H", "T", "T", "P", "/", "1", ".", "1">>,
      <<"P", "O", "S", "T", " ", "/">>,
      <<"G", "E", "T", " ", "/", "f", "a", "v", "i", "c", "o", "n", ".", "i", "c", "o">>,
      <<"P", "O", "S", "T", " ", "/", "f", "a", "v", "i", "c", "o", "n", ".", "i", "c", "o">>,
      <<" ", "P", "O", "S", "T", "\t", "/", "c", "h", "a", "t">> }
BadRequestLines ==
    { <<"g", "e", "t", " ", "/">>,
      <<"P", "U", "T", " ", "/", "c", "h", "a", "t", " ", "H", "T", "T", "P", "/", "1", ".", "1">>,
      <<"G", "E", "T", " ", "/", "x">>,
      <<"G", "E", "T">>,
      <<>>,
      <<"G", "E", "T", "/", " ", "H", "T", "T", "P", "/", "1", ".", "1">>,
      <<"H", "T", "T", "P", "/", "1", ".", "1", " ", "G", "E", "T", " ", "/">> }
HeaderLines ==
    { <<"X", "-", "A", "p", "i", "-", "K", "e", "y", ":", " ", "a", "b", "c">>,
      <<"x", "-", "a", "p", "i", "-", "k", "e", "y", ":", "b", "a", "d">>,
      <<"X", "-", "A", "P", "I", "-", "K", "E", "Y", ":", " ", "a", "b", "c", ":", "x", "y", "z">>,
      <<"X", "-", "A", "p", "i", "-", "K", "e", "y", ":">>,
      <<"C", "o", "n", "t", "e", "n", "t", "-", "L", "e", "n", "g", "t", "h", ":", " ", "5">>,
      <<"c", "o", "n", "t", "e", "n", "t", "-", "l", "e", "n", "g", "t", "h", ":", "0">>,
      <<"C", "o", "n", "t", "e", "n", "t", "-", "L", "e", "n", "g", "t", "h", ":", " ", "x">>,
      <<"H", "o", "s", "t", ":", " ", "h", ":", "1">> }

\* the keys a server is configured with: a usual key, the empty key that
\* Environment::new yields when CHAT_API_KEY is unset, a key with a colon
Keys == {Key("abc"), <<>>, Key("a:c")}

\* a request on the wire: request line, header lines, then the tail (nothing,
\* or the empty line and what follows it); eol ends each line
Wire(first, hdrs, tail, eol) ==
    first \o eol
    \o join([i \in 1..Len(hdrs) |-> hdrs[i] \o eol], <<>>)
    \o tail

\* text after the headers: the empty line, two lines that look like headers
\* and a last line with its terminator
BodyLikeHeaders(eol) ==
    eol \o Txt("body_2") \o eol \o Txt("body_3") \o eol \o Txt("body_1") \o eol

Tails(eol) == {<<>>, eol, BodyLikeHeaders(eol)}

\* bodies for POST /chat: every document, on one line and on several lines
\* with a final terminator, and texts that are no ChatRequest
ChatBodies ==
    {EncodeChat(doc, <<>>) : doc \in JsonDocs}
    \cup {EncodeChat(doc, CRLF) \o CRLF : doc \in JsonDocs}
    \cup {Txt("no_prompt"), Txt("truncated"), Txt("body_1")}

\* the request lines that get header sections of full length

\* the short requests: every good request line with few headers, and the
\* inputs of no line or one empty line
ShortInputs ==
    {Wire(l, hs, t, CRLF) :
        l \in GoodRequestLines,
        hs \in SeqsUpTo(HeaderLines, MaxHeaders - 1),
        t \in Tails(CRLF)}
    \cup {<<>>, <<LF>>, CRLF}

\* what a client may send on a connection
Inputs ==
    ShortInputs
    \cup {Wire(l, hs, t, CRLF) :
        l \in {Txt("post_chat"), Txt("get_chat") \o Txt("version")},
        hs \in [1..MaxHeaders -> HeaderLines],
        t \in Tails(CRLF)}
    \cup {Wire(l, hs, t, <<LF>>) :
        l \in GoodRequestLines, hs \in SeqsUpTo(HeaderLines, 1), t \in Tails(<<LF>>)}
    \cup {Wire(l, hs, t, CRLF) :
        l \in BadRequestLines,
        hs \in {<<>>, <<Txt("hdr_key")>>, <<Txt("hdr_key"), Txt("hdr_len")>>},
        t \in Tails(CRLF)}
    \cup {Wire(Txt("line_post_chat"), hs, CRLF \o b, CRLF) :
        hs \in {<<Txt("hdr_key"), Txt("hdr_len")>>, <<Txt("hdr_key")>>, <<Txt("hdr_key"), Txt("hdr_len_big")>>},
        b \in ChatBodies}

\* the requests sent to a server with this key: all of them to the server
\* with the usual key, the short ones to the others
InputsFor(key) == IF key = Key("abc") THEN Inputs ELSE ShortInputs

\* ----------------------------------------------------- server/mod.rs
\* what the reasoning backend may answer with
AgentReplies == {"pong", ""}

\* the requests sent on the connections after the first one
LaterInputs ==
    { <<"G", "E", "T", " ", "/", " ", "H", "T", "T", "P", "/", "1", ".", "1", "\r", "\n", "X", "-", "A", "p", "i", "-", "K", "e", "y", ":", " ", "a", "b", "c", "\r", "\n", "\r", "\n">>,
      <<"G", "E", "T", " ", "/", "\r", "\n", "\r", "\n">>,
      <<"g", "e", "t", " ", "/", "\r", "\n">>,
      Wire(Txt("line_post_chat"), <<Txt("hdr_key"), Txt("hdr_len")>>,
           CRLF \o EncodeChat([prompt |-> Txt("hi"), kind |-> "absent", items |-> <<>>], <<>>),
           CRLF) }

\* the requests the n-th connection may carry
InputsAt(key, n) == IF n = 1 THEN InputsFor(key) ELSE LaterInputs

VARIABLES
    api_key,      \* Server.api_key, the configured key
    pc,           \* where the accept loop is: "accept", "read", "auth",
                  \* "dispatch", "chat" (awaiting agent.chat), "done"
                  \* (send_response called), "return" (handle_client returned)
    stream,       \* Some(bytes the client sent) while a connection is open
    request_str,  \* Some(the text handle_client read from the stream)
    request,      \* the value of Request::parse(&request_str), once computed
    key_check,    \* the API-key check made: "none", "ok", "401", "403"
    handler,      \* the handler dispatch chose: "none", "chat", "root", "favicon"
    body_read,    \* chat_handler went on to take the body and decode it
    agent_calls,  \* the agent.chat calls made for this connection
    response,     \* Some([status, body]) once send_response was called
    agent_result, \* Some([ok, text]): what agent.chat returned
    sends,        \* the number of send_response calls made on this connection
    wire,         \* the bytes written to the stream of this connection
    result,       \* what handle_client returned: "none", "ok", "err"
    conn,         \* the iterations of the accept loop begun so far
    open,         \* the connections accepted and not yet dropped
    served,       \* the connections whose response write_all completed, in order
    log           \* what listen logged with error! and warn!: [conn, level]

VARIABLES
    kube_pc,      \* get_node_metrics_with_usage: "idle", "join", "returned"
    fut,          \* the two futures of join!: [st, res] with st "none",
                  \* "sending" (GET issued), "ready" (completed with res)
    cluster,      \* what the cluster does with the GET of each fetch
    arrived,      \* the fetches whose answer has arrived
    gets,         \* the GET requests issued
    calls,        \* the calls of get_node_metrics_with_usage made
    kube_out,     \* Some(what get_node_metrics_with_usage returned)
    fn_op,        \* the function of kube/types/metrics.rs applied, or "none"
    fn_args,      \* its arguments
    fn_ret,       \* Some(what it returned)
    overflow_checks \* whether the build checks integer arithmetic for
                  \* overflow (the default of a debug build, not of a
                  \* release build)

server_vars == <<api_key, pc, stream, request_str, request, key_check, handler,
                 body_read, agent_calls, response, agent_result, sends, wire,
                 result, conn, open, served, log>>

kube_vars == <<kube_pc, fut, cluster, arrived, gets, calls, kube_out>>

fn_vars == <<fn_op, fn_args, fn_ret, overflow_checks>>

vars == <<server_vars, kube_vars, fn_vars>>

\* no call of the metrics tool is running
KubeIdle ==
    /\ kube_pc = "idle"
    /\ fut = [s \in {"nodes", "metrics"} |-> [st |-> "none", res |-> None]]
    /\ cluster = [s \in {"nodes", "metrics"} |-> [k |-> "none"]]
    /\ arrived = {}
    /\ gets = <<>>
    /\ calls = 0
    /\ kube_out = None

\* no function is being applied on its own
FnIdle ==
    /\ fn_op = "none"
    /\ fn_args = None
    /\ fn_ret = None
    /\ overflow_checks \in BOOLEAN

\* the variables of the accept loop, which outlive a connection
loop_vars == <<conn, open, served, log>>

\* the variables of the writing of a response
write_vars == <<agent_result, wire, result>>

\* Server::send_response: the status line and body handed to the stream
send_response(status, body) == Some([status |-> status, body |-> body])

\* as_bytes: the text of a status or of a body, byte by byte
as_bytes(s) ==
    CASE s = "400 Bad Request" ->
           <<"4", "0", "0", " ", "B", "a", "d", " ", "R", "e", "q", "u", "e", "s", "t">>
      [] s = "401 Unauthorized" ->
           <<"4", "0", "1", " ", "U", "n", "a", "u", "t", "h", "o", "r", "i", "z", "e", "d">>
      [] s = "403 Forbidden" ->
           <<"4", "0", "3", " ", "F", "o", "r", "b", "i", "d", "d", "e", "n">>
      [] s = "404 Not Found" ->
           <<"4", "0", "4", " ", "N", "o", "t", " ", "F", "o", "u", "n", "d">>
      [] s = "405 Method Not Allowed" ->
           <<"4", "0", "5", " ", "M", "e", "t", "h", "o", "d", " ", "N", "o", "t", " ", "A", "l", "l", "o", "w", "e", "d">>
      [] s = "200 OK" ->
           <<"2", "0", "0", " ", "O", "K">>
      [] s = "500 Internal Server Error" ->
           <<"5", "0", "0", " ", "I", "n", "t", "e", "r", "n", "a", "l", " ", "S", "e", "r", "v", "e", "r", " ", "E", "r", "r", "o", "r">>
      [] s = "Invalid request" ->
           <<"I", "n", "v", "a", "l", "i", "d", " ", "r", "e", "q", "u", "e", "s", "t">>
      [] s = "Invalid API key" ->
           <<"I", "n", "v", "a", "l", "i", "d", " ", "A", "P", "I", " ", "k", "e", "y">>
      [] s = "Missing API key" ->
           <<"M", "i", "s", "s", "i", "n", "g", " ", "A", "P", "I", " ", "k", "e", "y">>
      [] s = "Favicon not found" ->
           <<"F", "a", "v", "i", "c", "o", "n", " ", "n", "o", "t", " ", "f", "o", "u", "n", "d">>
      [] s = "Missing request body" ->
           <<"M", "i", "s", "s", "i", "n", "g", " ", "r", "e", "q", "u", "e", "s", "t", " ", "b", "o", "d", "y">>
      [] s = "Invalid JSON body" ->
           <<"I", "n", "v", "a", "l", "i", "d", " ", "J", "S", "O", "N", " ", "b", "o", "d", "y">>
      [] s = "Invalid message role in chat history" ->
           <<"I", "n", "v", "a", "l", "i", "d", " ", "m", "e", "s", "s", "a", "g", "e", " ", "r", "o", "l", "e", " ", "i", "n", " ", "c", "h", "a", "t", " ", "h", "i", "s", "t", "o", "r", "y">>
      [] s = "Failed to generate response" ->
           <<"F", "a", "i", "l", "e", "d", " ", "t", "o", " ", "g", "e", "n", "e", "r", "a", "t", "e", " ", "r", "e", "s", "p", "o", "n", "s", "e">>
      [] s = "Invalid method for /chat" ->
           <<"I", "n", "v", "a", "l", "i", "d", " ", "m", "e", "t", "h", "o", "d", " ", "f", "o", "r", " ", "/", "c", "h", "a", "t">>
      [] s = "{\"healthy\": true}" ->
           <<"{", "\"", "h", "e", "a", "l", "t", "h", "y", "\"", ":", " ", "t", "r", "u", "e", "}">>
      [] s = "pong" ->
           <<"p", "o", "n", "g">>
      [] s = "" ->
           <<>>

\* Display for usize: the decimal digits of n
RECURSIVE to_string(_)
to_string(n) ==
    IF n < 10 THEN <<Digits[n + 1]>>
    ELSE Append(to_string(n \div 10), Digits[(n % 10) + 1])

\* the literal pieces of the format string of send_response
Fmt(s) ==
    CASE s = "http_1_1" ->
           <<"H", "T", "T", "P", "/", "1", ".", "1", " ">>
      [] s = "content_length" ->
           <<"C", "o", "n", "t", "e", "n", "t", "-", "L", "e", "n", "g", "t", "h", ":", " ">>

\* a response format with one more header
format_response_extra_header(status, body) ==
    Fmt("http_1_1") \o status \o CRLF
    \o Fmt("content_length") \o to_string(Len(body)) \o CRLF
    \o <<"C", "o", "n", "n", "e", "c", "t", "i", "o", "n", ":", " ", "c", "l", "o", "s", "e">> \o CRLF
    \o CRLF \o body

\* the format! of send_response: "HTTP/1.1 {}\r\nContent-Length: {}\r\n\r\n{}"
\* with status, body.len() and body
format_response(status, body) ==
    Fmt("http_1_1") \o status \o CRLF
    \o Fmt("content_length") \o to_string(Len(body)) \o CRLF
    \o CRLF \o body

\* the bytes send_response hands to write_all for the response it was called with
ResponseBytes(r) == format_response(as_bytes(r.status), as_bytes(r.body))

\* how many bytes write_all may have written when it fails
PartialWrites(bytes) == {0, 1, Len(bytes) - 1}

\* a key check that lets a request without a key through
ValidateApiKey_missing_ok(req_key, server_key) ==
    IF IsSome(req_key)
    THEN IF Unwrap(req_key) # server_key THEN "403" ELSE "ok"
    ELSE "ok"

\* a key check that accepts any key that is present
ValidateApiKey_any_key(req_key, server_key) ==
    IF IsSome(req_key) THEN "ok" ELSE "401"

\* a key check that remembers an earlier served connection and lets every
\* later request through
ValidateApiKey_session(req_key, server_key) ==
    IF served # <<>>
    THEN "ok"
    ELSE IF IsSome(req_key)
    THEN IF Unwrap(req_key) # server_key THEN "403" ELSE "ok"
    ELSE "401"

\* a key check that treats an empty key in the request as a missing key
ValidateApiKey_empty_is_missing(req_key, server_key) ==
    IF IsSome(req_key) /\ Unwrap(req_key) # <<>>
    THEN IF Unwrap(req_key) # server_key THEN "403" ELSE "ok"
    ELSE "401"

\* "Validate API key" in handle_client: the outcome for the key extracted
\* from the request against the configured key
ValidateApiKey(req_key, server_key) ==
    IF IsSome(req_key)
    THEN IF Unwrap(req_key) # server_key THEN "403" ELSE "ok"
    ELSE "401"

\* a path match that sends the favicon path to the root handler
Route_favicon_as_root(path) ==
    CASE path = "Chat" -> "chat"
      [] path = "Root" -> "root"
      [] path = "Favicon" -> "root"

\* the path match of handle_client
Route(path) ==
    CASE path = "Chat" -> "chat"
      [] path = "Root" -> "root"
      [] path = "Favicon" -> "favicon"

\* a history loop that skips a message that does not convert
RECURSIVE ConvertHistory_skip(_, _, _)
ConvertHistory_skip(history, i, converted_history) ==
    IF i > Len(history) THEN Some(converted_history)
    ELSE LET m == Message_try_from(history[i])
         IN  IF IsSome(m)
             THEN ConvertHistory_skip(history, i + 1,
                                      Append(converted_history, Unwrap(m)))
             ELSE ConvertHistory_skip(history, i + 1, converted_history)

\* the history loop of chat_handler: Some(converted_history), or None as soon
\* as one message does not convert
RECURSIVE ConvertHistory(_, _, _)
ConvertHistory(history, i, converted_history) ==
    IF i > Len(history) THEN Some(converted_history)
    ELSE LET m == Message_try_from(history[i])
         IN  IF IsSome(m)
             THEN ConvertHistory(history, i + 1, Append(converted_history, Unwrap(m)))
             ELSE None

\* a chat_handler that serves every method as it serves POST
ChatMethodAllowed_any(method) == TRUE

\* "match method" in chat_handler: Method::POST is served, "_" is answered 405
ChatMethodAllowed(method) == method = "POST"

\* a call of the backend that leaves the history out
ChatCall_no_history(prompt, chat_history) ==
    [prompt |-> prompt, chat_history |-> <<>>]

\* self.agent.chat(chat_req.prompt, chat_history): the arguments of the call
ChatCall(prompt, chat_history) ==
    [prompt |-> prompt, chat_history |-> chat_history]

\* Server::chat_handler up to its first response or to the agent.chat call:
\* [reply |-> Some(response)] or [reply |-> None, call |-> the arguments]
chat_handler(method, body) ==
    IF ~ChatMethodAllowed(method)
    THEN [read |-> FALSE, call |-> None,
          reply |-> send_response("405 Method Not Allowed", "Invalid method for /chat")]
    ELSE IF body = None
    THEN [read |-> TRUE, call |-> None,
          reply |-> send_response("400 Bad Request", "Missing request body")]
    ELSE LET chat_req == from_str(Unwrap(body))
         IN  IF chat_req = None
             THEN [read |-> TRUE, call |-> None,
                   reply |-> send_response("400 Bad Request", "Invalid JSON body")]
             ELSE LET history == Unwrap(chat_req).chat_history
                      chat_history ==
                          IF IsSome(history)
                          THEN ConvertHistory(Unwrap(history), 1, <<>>)
                          ELSE Some(<<>>)
                  IN  IF chat_history = None
                      THEN [read |-> TRUE, call |-> None,
                            reply |-> send_response("400 Bad Request",
                                         "Invalid message role in chat history")]
                      ELSE [read |-> TRUE, reply |-> None,
                            call |-> Some(ChatCall(Unwrap(chat_req).prompt,
                                                   Unwrap(chat_history)))]

\* Server::root_handler
root_handler == send_response("200 OK", "{\"healthy\": true}")

\* a listener that takes the next connection while one is being handled
ListenReady_any(at) == at # "stopped"

\* listen: the for loop asks listener.incoming() for the next connection only
\* when the body of the previous iteration has finished
ListenReady(at) == at = "accept"

\* a listen that returns when handle_client fails
NextIteration_stop_on_error(res) == IF res = "err" THEN "stopped" ELSE "accept"

\* listen: after the match on handle_client's result the for loop goes on
NextIteration(res) == "accept"

Init ==
    /\ api_key \in Keys
    /\ pc = "accept"
    /\ stream = None
    /\ request_str = None
    /\ request = None
    /\ key_check = "none"
    /\ handler = "none"
    /\ body_read = FALSE
    /\ agent_calls = <<>>
    /\ response = None
    /\ agent_result = None
    /\ sends = 0
    /\ wire = <<>>
    /\ result = "none"
    /\ conn = 0
    /\ open = {}
    /\ served = <<>>
    /\ log = <<>>
    /\ KubeIdle
    /\ FnIdle

\* listen: listener.incoming() yields a connection on which a client sent bytes
Accept(bytes) ==
    /\ ListenReady(pc)
    /\ conn < MaxConns
    /\ pc' = "read"
    /\ stream' = Some(bytes)
    /\ conn' = conn + 1
    /\ open' = open \cup {conn + 1}
    /\ UNCHANGED <<api_key, request_str, request, key_check, handler,
                   body_read, agent_calls, response, sends, served, log>>
    /\ UNCHANGED write_vars
    /\ UNCHANGED <<kube_vars, fn_vars>>

\* listen: listener.incoming() yields Err, which is logged with warn!
AcceptFail ==
    /\ ListenReady(pc)
    /\ conn < MaxConns
    /\ conn' = conn + 1
    /\ log' = Append(log, [conn |-> conn + 1, level |-> "warn"])
    /\ UNCHANGED <<api_key, pc, stream, request_str, request, key_check, handler,
                   body_read, agent_calls, response, sends, open, served>>
    /\ UNCHANGED write_vars
    /\ UNCHANGED <<kube_vars, fn_vars>>

\* handle_client: stream.read fails and "?" returns the error to listen;
\* nothing is parsed and send_response is not called
ReadFail ==
    /\ pc = "read"
    /\ pc' = "return"
    /\ result' = "err"
    /\ UNCHANGED <<api_key, stream, request_str, request, key_check, handler,
                   body_read, agent_calls, response, sends, agent_result, wire>>
    /\ UNCHANGED loop_vars
    /\ UNCHANGED <<kube_vars, fn_vars>>

\* handle_client: the single read into the buffer (the bytes are ASCII, which
\* from_utf8_lossy leaves as they are), Request::parse, and the None arm of
\* the match (400)
ReadRequest ==
    /\ pc = "read"
    /\ LET bytes == Unwrap(stream)
           text  == SubSeq(bytes, 1, Min(Len(bytes), BufferSize))
           req   == Request_parse(text)
       IN  /\ request_str' = Some(text)
           /\ request' = req
           /\ IF req = None
              THEN /\ response' = send_response("400 Bad Request", "Invalid request")
                   /\ sends' = sends + 1
                   /\ pc' = "done"
              ELSE /\ response' = response
                   /\ sends' = sends
                   /\ pc' = "auth"
    /\ UNCHANGED <<api_key, stream, key_check, handler, body_read, agent_calls>>
    /\ UNCHANGED write_vars
    /\ UNCHANGED loop_vars
    /\ UNCHANGED <<kube_vars, fn_vars>>

\* handle_client: "Validate API key" with its two early returns
Authenticate ==
    /\ pc = "auth"
    /\ LET outcome == ValidateApiKey(Unwrap(request).api_key, api_key)
       IN  /\ key_check' = outcome
           /\ CASE outcome = "403" ->
                     /\ response' = send_response("403 Forbidden", "Invalid API key")
                     /\ sends' = sends + 1
                     /\ pc' = "done"
                [] outcome = "401" ->
                     /\ response' = send_response("401 Unauthorized", "Missing API key")
                     /\ sends' = sends + 1
                     /\ pc' = "done"
                [] OTHER ->
                     /\ response' = response
                     /\ sends' = sends
                     /\ pc' = "dispatch"
    /\ UNCHANGED <<api_key, stream, request_str, request, handler, body_read,
                   agent_calls>>
    /\ UNCHANGED write_vars
    /\ UNCHANGED loop_vars
    /\ UNCHANGED <<kube_vars, fn_vars>>

\* handle_client: Path::Chat => chat_handler, up to its response or to the
\* await of agent.chat
DispatchChat ==
    /\ pc = "dispatch"
    /\ Route(Unwrap(request).path) = "chat"
    /\ LET out == chat_handler(Unwrap(request).method, Unwrap(request).body)
       IN  /\ handler' = "chat"
           /\ body_read' = out.read
           /\ IF IsSome(out.call)
              THEN /\ agent_calls' = Append(agent_calls, Unwrap(out.call))
                   /\ response' = response
                   /\ sends' = sends
                   /\ pc' = "chat"
              ELSE /\ agent_calls' = agent_calls
                   /\ response' = out.reply
                   /\ sends' = sends + 1
                   /\ pc' = "done"
    /\ UNCHANGED <<api_key, stream, request_str, request, key_check>>
    /\ UNCHANGED write_vars
    /\ UNCHANGED loop_vars
    /\ UNCHANGED <<kube_vars, fn_vars>>

\* handle_client: Path::Root => root_handler
DispatchRoot ==
    /\ pc = "dispatch"
    /\ Route(Unwrap(request).path) = "root"
    /\ handler' = "root"
    /\ response' = root_handler
    /\ sends' = sends + 1
    /\ pc' = "done"
    /\ UNCHANGED <<api_key, stream, request_str, request, key_check, body_read,
                   agent_calls>>
    /\ UNCHANGED write_vars
    /\ UNCHANGED loop_vars
    /\ UNCHANGED <<kube_vars, fn_vars>>

\* handle_client: Path::Favicon => 404
DispatchFavicon ==
    /\ pc = "dispatch"
    /\ Route(Unwrap(request).path) = "favicon"
    /\ handler' = "favicon"
    /\ response' = send_response("404 Not Found", "Favicon not found")
    /\ sends' = sends + 1
    /\ pc' = "done"
    /\ UNCHANGED <<api_key, stream, request_str, request, key_check, body_read,
                   agent_calls>>
    /\ UNCHANGED write_vars
    /\ UNCHANGED loop_vars
    /\ UNCHANGED <<kube_vars, fn_vars>>

\* chat_handler: agent.chat returned Ok(resp)
ChatOk(resp) ==
    /\ pc = "chat"
    /\ agent_result' = Some([ok |-> TRUE, text |-> resp])
    /\ response' = send_response("200 OK", resp)
    /\ sends' = sends + 1
    /\ pc' = "done"
    /\ UNCHANGED <<api_key, stream, request_str, request, key_check, handler,
                   body_read, agent_calls, wire, result>>
    /\ UNCHANGED loop_vars
    /\ UNCHANGED <<kube_vars, fn_vars>>

\* an Err arm of agent.chat that returns the error without a response
ChatErr_no_response ==
    /\ pc = "chat"
    /\ agent_result' = Some([ok |-> FALSE, text |-> ""])
    /\ result' = "err"
    /\ pc' = "return"
    /\ UNCHANGED <<api_key, stream, request_str, request, key_check, handler,
                   body_read, agent_calls, response, sends, wire>>
    /\ UNCHANGED loop_vars
    /\ UNCHANGED <<kube_vars, fn_vars>>

\* chat_handler: agent.chat returned Err
ChatErr ==
    /\ pc = "chat"
    /\ agent_result' = Some([ok |-> FALSE, text |-> ""])
    /\ response' = send_response("500 Internal Server Error",
                                 "Failed to generate response")
    /\ sends' = sends + 1
    /\ pc' = "done"
    /\ UNCHANGED <<api_key, stream, request_str, request, key_check, handler,
                   body_read, agent_calls, wire, result>>
    /\ UNCHANGED loop_vars
    /\ UNCHANGED <<kube_vars, fn_vars>>

\* send_response: write_all and flush succeed; handle_client returns Ok(())
WriteOk ==
    /\ pc = "done"
    /\ wire' = wire \o ResponseBytes(Unwrap(response))
    /\ served' = Append(served, conn)
    /\ result' = "ok"
    /\ pc' = "return"
    /\ UNCHANGED <<api_key, stream, request_str, request, key_check, handler,
                   body_read, agent_calls, response, sends, agent_result,
                   conn, open, log>>
    /\ UNCHANGED <<kube_vars, fn_vars>>

\* send_response: write_all fails after it wrote k bytes of the response;
\* "?" returns the error and handle_client returns it to listen
WriteFail ==
    /\ pc = "done"
    /\ \E k \in PartialWrites(ResponseBytes(Unwrap(response))) :
           wire' = wire \o SubSeq(ResponseBytes(Unwrap(response)), 1, k)
    /\ result' = "err"
    /\ pc' = "return"
    /\ UNCHANGED <<api_key, stream, request_str, request, key_check, handler,
                   body_read, agent_calls, response, sends, agent_result>>
    /\ UNCHANGED loop_vars
    /\ UNCHANGED <<kube_vars, fn_vars>>

\* send_response: write_all wrote the response and flush returns an error
FlushFail ==
    /\ pc = "done"
    /\ wire' = wire \o ResponseBytes(Unwrap(response))
    /\ served' = Append(served, conn)
    /\ result' = "err"
    /\ pc' = "return"
    /\ UNCHANGED <<api_key, stream, request_str, request, key_check, handler,
                   body_read, agent_calls, response, sends, agent_result,
                   conn, open, log>>
    /\ UNCHANGED <<kube_vars, fn_vars>>

\* listen: handle_client returned; an Err is logged with error!. The stream
\* is dropped, which closes the connection, and with it everything the
\* request owned; the for loop takes the next connection
Close ==
    /\ pc = "return"
    /\ log' = IF result = "err"
              THEN Append(log, [conn |-> conn, level |-> "error"])
              ELSE log
    /\ open' = open \ {conn}
    /\ pc' = NextIteration(result)
    /\ stream' = None
    /\ request_str' = None
    /\ request' = None
    /\ key_check' = "none"
    /\ handler' = "none"
    /\ body_read' = FALSE
    /\ agent_calls' = <<>>
    /\ response' = None
    /\ agent_result' = None
    /\ sends' = 0
    /\ wire' = <<>>
    /\ result' = "none"
    /\ UNCHANGED <<api_key, conn, served>>
    /\ UNCHANGED <<kube_vars, fn_vars>>

Next ==
    \/ \E bytes \in InputsAt(api_key, conn + 1) : Accept(bytes)
    \/ AcceptFail
    \/ ReadRequest
    \/ ReadFail
    \/ Authenticate
    \/ DispatchChat
    \/ DispatchRoot
    \/ DispatchFavicon
    \/ \E resp \in AgentReplies : ChatOk(resp)
    \/ ChatErr
    \/ WriteOk
    \/ WriteFail
    \/ FlushFail
    \/ Close

Spec == Init /\ [][Next]_vars

\* ------------------------------------------------- kube/types/metrics.rs
\* str::strip_suffix: Some(the text before the suffix), None without it
strip_suffix(s, suffix) ==
    IF Len(s) >= Len(suffix)
       /\ SubSeq(s, Len(s) - Len(suffix) + 1, Len(s)) = suffix
    THEN Some(SubSeq(s, 1, Len(s) - Len(suffix)))
    ELSE None

AllDigits(s) == \A i \in 1..Len(s) : IsDigit(s[i])

\* a decimal numeral without its leading zeros
RECURSIVE StripZeros(_)
StripZeros(ds) ==
    IF Len(ds) > 1 /\ ds[1] = "0" THEN StripZeros(Tail(ds)) ELSE ds

\* a < b for numerals of the same length
RECURSIVE LexLess(_, _)
LexLess(a, b) ==
    IF a = <<>> THEN FALSE
    ELSE IF a[1] # b[1] THEN DigitVal(a[1]) < DigitVal(b[1])
    ELSE LexLess(Tail(a), Tail(b))

\* a <= b for numerals without leading zeros
NumeralLeq(a, b) ==
    \/ Len(a) < Len(b)
    \/ Len(a) = Len(b) /\ (a = b \/ LexLess(a, b))

U64Max == <<"1", "8", "4", "4", "6", "7", "4", "4", "0", "7", "3", "7", "0", "9", "5", "5", "1", "6", "1", "5">>

\* str::parse::<u64>: an optional '+', then one digit or more, and a value
\* of at most u64::MAX. The value is kept as its numeral, which has any length
parse_u64(s) ==
    LET ds == IF s # <<>> /\ s[1] = "+" THEN Tail(s) ELSE s
    IN  IF ds = <<>> \/ ~AllDigits(ds) THEN None
        ELSE IF ~NumeralLeq(StripZeros(ds), U64Max) THEN None
        ELSE Some(StripZeros(ds))

\* the number a numeral of at most nine digits denotes
RECURSIVE NumeralValue(_)
NumeralValue(ds) ==
    IF ds = <<>> THEN 0
    ELSE 10 * NumeralValue(SubSeq(ds, 1, Len(ds) - 1)) + DigitVal(ds[Len(ds)])

\* the numeral of 1024 times the number of a numeral, digit by digit from
\* the right with a carry
RECURSIVE TimesAcc(_, _, _, _)
TimesAcc(ds, k, carry, acc) ==
    IF ds = <<>>
    THEN IF carry = 0 THEN acc ELSE to_string(carry) \o acc
    ELSE LET p == DigitVal(ds[Len(ds)]) * k + carry
         IN  TimesAcc(SubSeq(ds, 1, Len(ds) - 1), k, p \div 10,
                      <<Digits[(p % 10) + 1]>> \o acc)

NumeralTimes(ds, k) == StripZeros(TimesAcc(ds, k, 0, <<>>))

\* the numeral of a - b for numerals a >= b, digit by digit from the right
\* with a borrow
RECURSIVE MinusAcc(_, _, _, _)
MinusAcc(a, b, borrow, acc) ==
    IF a = <<>> THEN acc
    ELSE LET x == DigitVal(a[Len(a)])
             y == (IF b = <<>> THEN 0 ELSE DigitVal(b[Len(b)])) + borrow
             r == IF x >= y THEN x - y ELSE x + 10 - y
         IN  MinusAcc(SubSeq(a, 1, Len(a) - 1),
                      IF b = <<>> THEN <<>> ELSE SubSeq(b, 1, Len(b) - 1),
                      IF x >= y THEN 0 ELSE 1,
                      <<Digits[r + 1]>> \o acc)

\* a numeral below 2^74 modulo 2^64: 2^64 * 2^j is taken off where it fits,
\* for j = 9 down to 0
RECURSIVE WrapU64(_, _)
WrapU64(ds, j) ==
    IF j < 0 THEN ds
    ELSE LET two64 == <<"1", "8", "4", "4", "6", "7", "4", "4", "0", "7", "3",
                        "7", "0", "9", "5", "5", "1", "6", "1", "6">>
             m     == NumeralTimes(two64, 2^j)
         IN  IF NumeralLeq(m, ds)
             THEN WrapU64(StripZeros(MinusAcc(ds, m, 0, <<>>)), j - 1)
             ELSE WrapU64(ds, j - 1)

\* a * k on u64 for k <= 1024: the product modulo 2^64, which wrapping
\* arithmetic leaves, and whether the product exceeds u64::MAX
u64_mul(ds, k) ==
    LET p == NumeralTimes(ds, k)
    IN  [value |-> WrapU64(p, 9), overflow |-> ~NumeralLeq(p, U64Max)]

\* ---- f64 values, kept exact: [k |-> "num", n, d, e] is (n / d) * 10^e with
\* d > 0, n and d coprime, d coprime to 10 and n no multiple of 10; the other
\* values are [k |-> "inf", n |-> 1 or -1] and [k |-> "nan"]. Rounding to 53
\* bits is not modelled and -0.0 is 0
RECURSIVE GCD(_, _)
GCD(a, b) == IF b = 0 THEN a ELSE GCD(b, a % b)

Abs(x) == IF x < 0 THEN -x ELSE x
Sign(x) == IF x < 0 THEN -1 ELSE 1

RECURSIVE Canon(_, _, _)
Canon(n, d, e) ==
    IF n = 0 THEN [k |-> "num", n |-> 0, d |-> 1, e |-> 0]
    ELSE IF GCD(Abs(n), d) > 1
    THEN Canon(n \div GCD(Abs(n), d), d \div GCD(Abs(n), d), e)
    ELSE IF Abs(n) % 10 = 0 THEN Canon(Sign(n) * (Abs(n) \div 10), d, e + 1)
    ELSE IF d % 2 = 0 THEN Canon(n * 5, d \div 2, e - 1)
    ELSE IF d % 5 = 0 THEN Canon(n * 2, d \div 5, e - 1)
    ELSE [k |-> "num", n |-> n, d |-> d, e |-> e]

F64_nan == [k |-> "nan"]
F64_inf(sign) == [k |-> "inf", n |-> sign]

\* a / b on f64
F64Div(a, b) ==
    IF a.k = "nan" \/ b.k = "nan" THEN F64_nan
    ELSE IF a.k = "inf"
    THEN IF b.k = "inf" THEN F64_nan ELSE F64_inf(a.n * Sign(b.n))
    ELSE IF b.k = "inf" THEN Canon(0, 1, 0)
    ELSE IF b.n = 0
    THEN IF a.n = 0 THEN F64_nan ELSE F64_inf(Sign(a.n))
    ELSE Canon(a.n * b.d * Sign(b.n), a.d * Abs(b.n), a.e - b.e)

\* a * 10^p on f64
F64Scale(a, p) == IF a.k = "num" THEN Canon(a.n, a.d, a.e + p) ELSE a

\* "as f64" of a u64: the trailing zeros of the numeral go to the exponent
RECURSIVE F64FromU64Acc(_, _)
F64FromU64Acc(ds, e) ==
    IF Len(ds) > 1 /\ ds[Len(ds)] = "0"
    THEN F64FromU64Acc(SubSeq(ds, 1, Len(ds) - 1), e + 1)
    ELSE Canon(NumeralValue(ds), 1, e)

F64FromU64(ds) == F64FromU64Acc(ds, 0)

\* the words f64::from_str accepts besides numbers (matched case-insensitively)
F64Word(s) ==
    CASE s = "inf" ->
           <<"i", "n", "f">>
      [] s = "infinity" ->
           <<"i", "n", "f", "i", "n", "i", "t", "y">>
      [] s = "nan" ->
           <<"n", "a", "n">>

\* the places of a character in a text
Places(s, c) == {i \in 1..Len(s) : s[i] = c}

\* str::parse::<f64>: Sign? ('inf' | 'infinity' | 'nan' | Number), where
\* Number is digits with at most one '.', one digit at least, and an optional
\* exponent 'e' Sign? Digit+; no white space is accepted
parse_f64(s) ==
    LET signed == s # <<>> /\ s[1] \in {"+", "-"}
        sign   == IF signed /\ s[1] = "-" THEN -1 ELSE 1
        t      == to_lowercase(IF signed THEN Tail(s) ELSE s)
        es     == Places(t, "e")
        m      == IF es = {} THEN t ELSE SubSeq(t, 1, SetMin(es) - 1)
        x      == IF es = {} THEN <<>> ELSE SubSeq(t, SetMin(es) + 1, Len(t))
        xsigned == x # <<>> /\ x[1] \in {"+", "-"}
        xd     == IF xsigned THEN Tail(x) ELSE x
        ps     == Places(m, ".")
        ip     == IF ps = {} THEN m ELSE SubSeq(m, 1, SetMin(ps) - 1)
        fp     == IF ps = {} THEN <<>> ELSE SubSeq(m, SetMin(ps) + 1, Len(m))
        exp    == (IF xsigned /\ x[1] = "-" THEN -1 ELSE 1) * NumeralValue(xd)
    IN  IF t \in {F64Word("inf"), F64Word("infinity")} THEN Some(F64_inf(sign))
        ELSE IF t = F64Word("nan") THEN Some(F64_nan)
        ELSE IF es # {} /\ (xd = <<>> \/ ~AllDigits(xd)) THEN None
        ELSE IF ~AllDigits(ip) \/ ~AllDigits(fp) \/ ip \o fp = <<>> THEN None
        ELSE Some(Canon(sign * NumeralValue(ip \o fp), 1, exp - Len(fp)))

\* the suffixes and the error-message prefixes of kube/types/metrics.rs
Msg(s) ==
    CASE s = "n" ->
           <<"n">>
      [] s = "Ki" ->
           <<"K", "i">>
      [] s = "cpu_capacity" ->
           <<"F", "a", "i", "l", "e", "d", " ", "t", "o", " ", "p", "a", "r", "s", "e", " ", "C", "P", "U", " ", "c", "a", "p", "a", "c", "i", "t", "y", ":", " ">>
      [] s = "cpu_nanoseconds" ->
           <<"F", "a", "i", "l", "e", "d", " ", "t", "o", " ", "p", "a", "r", "s", "e", " ", "C", "P", "U", " ", "n", "a", "n", "o", "s", "e", "c", "o", "n", "d", "s", ":", " ">>
      [] s = "cpu_format" ->
           <<"I", "n", "v", "a", "l", "i", "d", " ", "C", "P", "U", " ", "f", "o", "r", "m", "a", "t", ":", " ">>
      [] s = "memory_ki" ->
           <<"F", "a", "i", "l", "e", "d", " ", "t", "o", " ", "p", "a", "r", "s", "e", " ", "m", "e", "m", "o", "r", "y", " ", "K", "i", ":", " ">>
      [] s = "memory_format" ->
           <<"I", "n", "v", "a", "l", "i", "d", " ", "m", "e", "m", "o", "r", "y", " ", "f", "o", "r", "m", "a", "t", ":", " ">>
      [] s = "no_matching_node" ->
           <<"N", "o", " ", "m", "a", "t", "c", "h", "i", "n", "g", " ", "n", "o", "d", "e", " ", "f", "o", "u", "n", "d", " ", "f", "o", "r", " ", "m", "e", "t", "r", "i", "c", "s", ":", " ">>

\* Result<T, String>
Ok(v) == [ok |-> TRUE, value |-> v]
Err(e) == [ok |-> FALSE, error |-> e]

\* a CPU parser that takes the text as nanocores when the marker is missing
parse_cpu_nanoseconds_lenient(cpu_str) ==
    LET stripped == strip_suffix(cpu_str, <<"n">>)
        text == IF IsSome(stripped) THEN Unwrap(stripped) ELSE cpu_str
    IN  IF IsSome(parse_f64(text))
        THEN Ok(F64Scale(Unwrap(parse_f64(text)), -9))
        ELSE Err(<<"F", "a", "i", "l", "e", "d">> \o cpu_str)

\* parse_cpu_nanoseconds: the text before a final 'n' as f64, over 10^9
parse_cpu_nanoseconds(cpu_str) ==
    LET stripped == strip_suffix(cpu_str, Msg("n"))
    IN  IF IsSome(stripped)
        THEN IF IsSome(parse_f64(Unwrap(stripped)))
             THEN Ok(F64Scale(Unwrap(parse_f64(Unwrap(stripped))), -9))
             ELSE Err(Msg("cpu_nanoseconds") \o cpu_str)
        ELSE Err(Msg("cpu_format") \o cpu_str)

\* parse_memory_ki: the text before a final "Ki" as u64
parse_memory_ki(mem_str) ==
    LET stripped == strip_suffix(mem_str, Msg("Ki"))
    IN  IF IsSome(stripped)
        THEN IF IsSome(parse_u64(Unwrap(stripped)))
             THEN Ok(Unwrap(parse_u64(Unwrap(stripped))))
             ELSE Err(Msg("memory_ki") \o mem_str)
        ELSE Err(Msg("memory_format") \o mem_str)

\* "Parse CPU capacity" of from_node_and_metrics
parse_cpu_capacity(cpu) ==
    IF IsSome(parse_f64(cpu)) THEN Ok(Unwrap(parse_f64(cpu)))
    ELSE Err(Msg("cpu_capacity") \o cpu)

\* the call does not return: the thread panics ("attempt to multiply with
\* overflow") and unwinds through its callers
Panic == [ok |-> FALSE, panic |-> TRUE]

\* a from_node_and_metrics that takes a usage it cannot parse as 0
from_node_and_metrics_usage_default(node, metrics) ==
    LET cpu_capacity       == parse_cpu_capacity(node.cpu)
        memory_capacity_ki == parse_memory_ki(node.memory)
        cpu_usage          == parse_cpu_nanoseconds(metrics.cpu)
        memory_usage       == parse_memory_ki(metrics.memory)
        cpu_usage_cores    == IF cpu_usage.ok THEN cpu_usage.value
                              ELSE Canon(0, 1, 0)
        memory_usage_ki    == IF memory_usage.ok THEN memory_usage.value
                              ELSE <<"0">>
    IN  IF ~cpu_capacity.ok THEN Err(cpu_capacity.error)
        ELSE IF ~memory_capacity_ki.ok THEN Err(memory_capacity_ki.error)
        ELSE IF u64_mul(memory_usage_ki, 1024).overflow /\ overflow_checks
        THEN Panic
        ELSE Ok([name           |-> node.name,
                 cpu_cores      |-> cpu_usage_cores,
                 cpu_percent    |->
                     F64Scale(F64Div(cpu_usage_cores, cpu_capacity.value), 2),
                 memory_bytes   |-> u64_mul(memory_usage_ki, 1024).value,
                 memory_percent |->
                     F64Scale(F64Div(F64FromU64(memory_usage_ki),
                                     F64FromU64(memory_capacity_ki.value)), 2)])

\* v > 100 for an f64 value: n * 10^e > 100 * d, without leaving 32 bits
F64Gt100(v) ==
    IF v.k = "nan" THEN FALSE
    ELSE IF v.k = "inf" THEN v.n > 0
    ELSE IF v.e >= 2 THEN v.n > v.d \div (10 ^ Min(v.e - 2, 9))
    ELSE 2 - v.e <= 9 /\ v.n >= 1 /\ v.d <= (v.n - 1) \div (10 ^ (2 - v.e))

\* a from_node_and_metrics that reports no more than 100 percent
from_node_and_metrics_clamped(node, metrics) ==
    LET cpu_capacity       == parse_cpu_capacity(node.cpu)
        memory_capacity_ki == parse_memory_ki(node.memory)
        cpu_usage_cores    == parse_cpu_nanoseconds(metrics.cpu)
        memory_usage_ki    == parse_memory_ki(metrics.memory)
        clamp(v)           == IF F64Gt100(v) THEN Canon(100, 1, 0) ELSE v
    IN  IF ~cpu_capacity.ok THEN Err(cpu_capacity.error)
        ELSE IF ~memory_capacity_ki.ok THEN Err(memory_capacity_ki.error)
        ELSE IF ~cpu_usage_cores.ok THEN Err(cpu_usage_cores.error)
        ELSE IF ~memory_usage_ki.ok THEN Err(memory_usage_ki.error)
        ELSE IF u64_mul(memory_usage_ki.value, 1024).overflow /\ overflow_checks
        THEN Panic
        ELSE Ok([name           |-> node.name,
                 cpu_cores      |-> cpu_usage_cores.value,
                 cpu_percent    |->
                     clamp(F64Scale(F64Div(cpu_usage_cores.value,
                                           cpu_capacity.value), 2)),
                 memory_bytes   |-> u64_mul(memory_usage_ki.value, 1024).value,
                 memory_percent |->
                     clamp(F64Scale(F64Div(F64FromU64(memory_usage_ki.value),
                                           F64FromU64(memory_capacity_ki.value)), 2))])

\* NodeMetricsInfo::from_node_and_metrics. A Node is [name, cpu, memory] with
\* the two capacities, a NodeMetrics is [name, cpu, memory] with the two usages
from_node_and_metrics(node, metrics) ==
    LET cpu_capacity       == parse_cpu_capacity(node.cpu)
        memory_capacity_ki == parse_memory_ki(node.memory)
        cpu_usage_cores    == parse_cpu_nanoseconds(metrics.cpu)
        memory_usage_ki    == parse_memory_ki(metrics.memory)
    IN  IF ~cpu_capacity.ok THEN Err(cpu_capacity.error)
        ELSE IF ~memory_capacity_ki.ok THEN Err(memory_capacity_ki.error)
        ELSE IF ~cpu_usage_cores.ok THEN Err(cpu_usage_cores.error)
        ELSE IF ~memory_usage_ki.ok THEN Err(memory_usage_ki.error)
        ELSE IF u64_mul(memory_usage_ki.value, 1024).overflow /\ overflow_checks
        THEN Panic
        ELSE Ok([name           |-> node.name,
                 cpu_cores      |-> cpu_usage_cores.value,
                 cpu_percent    |->
                     F64Scale(F64Div(cpu_usage_cores.value, cpu_capacity.value), 2),
                 memory_bytes   |-> u64_mul(memory_usage_ki.value, 1024).value,
                 memory_percent |->
                     F64Scale(F64Div(F64FromU64(memory_usage_ki.value),
                                     F64FromU64(memory_capacity_ki.value)), 2)])

\* KubeAgentError
ParseError(msg) == [kind |-> "ParseError", msg |-> msg]
HttpError(msg) == [kind |-> "HttpError", msg |-> msg]
JsonParseError(msg) == [kind |-> "JsonParseError", msg |-> msg]

\* nodes.items.iter().find(|n| n.metadata.name == name): the first match
find(nodes, name) ==
    LET matches == {j \in 1..Len(nodes) : nodes[j].name = name}
    IN  IF matches = {} THEN None ELSE Some(nodes[SetMin(matches)])

\* a push that puts the new entry in front
push_front(items, info) == <<info>> \o items

\* items.push(info)
push(items, info) == Append(items, info)

\* a loop that leaves out a metrics entry without a node of its name
RECURSIVE CombineLoop_skip_unmatched(_, _, _, _)
CombineLoop_skip_unmatched(self_items, nodes, i, items) ==
    IF i > Len(self_items) THEN Ok(items)
    ELSE LET metrics == self_items[i]
             node    == find(nodes, metrics.name)
         IN  IF node = None
             THEN CombineLoop_skip_unmatched(self_items, nodes, i + 1, items)
             ELSE LET info == from_node_and_metrics(Unwrap(node), metrics)
                  IN  IF info = Panic THEN Panic
                      ELSE IF ~info.ok THEN Err(ParseError(info.error))
                      ELSE CombineLoop_skip_unmatched(self_items, nodes, i + 1,
                                                      push(items, info.value))

\* the for loop of combine_with_nodes from its i-th metrics entry on
RECURSIVE CombineLoop(_, _, _, _)
CombineLoop(self_items, nodes, i, items) ==
    IF i > Len(self_items) THEN Ok(items)
    ELSE LET metrics == self_items[i]
             node    == find(nodes, metrics.name)
         IN  IF node = None
             THEN Err(ParseError(Msg("no_matching_node") \o metrics.name))
             ELSE LET info == from_node_and_metrics(Unwrap(node), metrics)
                  IN  IF info = Panic THEN Panic
                      ELSE IF ~info.ok THEN Err(ParseError(info.error))
                      ELSE CombineLoop(self_items, nodes, i + 1,
                                       push(items, info.value))

\* NodeMetricsListResponse::combine_with_nodes
combine_with_nodes(self_items, nodes) == CombineLoop(self_items, nodes, 1, <<>>)

\* ---- the node lists and quantity texts the functions are applied to
\* node names and resource quantities as the cluster reports them
Field(s) ==
    CASE s = "a" ->
           <<"a">>
      [] s = "b" ->
           <<"b">>
      [] s = "2" ->
           <<"2">>
      [] s = "500m" ->
           <<"5", "0", "0", "m">>
      [] s = "100Ki" ->
           <<"1", "0", "0", "K", "i">>
      [] s = "1Mi" ->
           <<"1", "M", "i">>
      [] s = "5n" ->
           <<"5", "n">>
      [] s = "5m" ->
           <<"5", "m">>
      [] s = "50Ki" ->
           <<"5", "0", "K", "i">>
      [] s = "50" ->
           <<"5", "0">>
      [] s = "2000000010n" ->
           <<"2", "0", "0", "0", "0", "0", "0", "0", "1", "0", "n">>
      [] s = "1879200Ki" ->
           <<"1", "8", "7", "9", "2", "0", "0", "K", "i">>
      [] s = "18000000000000000Ki" ->
           <<"1", "8", "0", "0", "0", "0", "0", "0", "0", "0", "0", "0", "0", "0", "0", "0", "0", "K", "i">>
      [] s = "19000000000000000Ki" ->
           <<"1", "9", "0", "0", "0", "0", "0", "0", "0", "0", "0", "0", "0", "0", "0", "0", "0", "K", "i">>

\* inventory entries: capacities that parse, a CPU capacity in millicores, a
\* memory capacity in Mi
NodeLists ==
    SeqsUpTo(
    {[name |-> nm, cpu |-> c[1], memory |-> c[2]] :
        nm \in {Field("a"), Field("b")},
        c \in {<<Field("2"), Field("100Ki")>>, <<Field("500m"), Field("100Ki")>>, <<Field("2"), Field("1Mi")>>}},
    MaxNodes)

\* metrics entries: usages that parse, a CPU usage in millicores, a memory
\* usage without a marker, usages above the capacity, and memory usages
\* just below and above 2^54 Ki, where 1024 times the usage passes u64::MAX
MetricsLists ==
    SeqsUpTo(
    {[name |-> nm, cpu |-> u[1], memory |-> u[2]] :
        nm \in {Field("a"), Field("b")},
        u \in {<<Field("5n"), Field("50Ki")>>, <<Field("5m"), Field("50Ki")>>, <<Field("5n"), Field("50")>>}}
    \cup
    {[name |-> Field("a"), cpu |-> u[1], memory |-> u[2]] :
        u \in {<<Field("2000000010n"), Field("1879200Ki")>>,
               <<Field("5n"), Field("18000000000000000Ki")>>,
               <<Field("5n"), Field("19000000000000000Ki")>>}},
    MaxMetrics)

\* quantity texts: a number or something else, followed by a marker or not
QuantityNumbers ==
    { <<>>, <<"5">>, <<"1", "2">>, <<"0">>, <<"1", ".", "5">>, <<"x">>,
      <<"-", "1">>, <<"+", "3">>, <<" ", "7">>, <<"1", "e", "3">>,
      <<"0", "7">>, <<".">>, <<"i", "n", "f">>, <<"N", "a", "N">> }

QuantityMarkers ==
    { <<>>, <<"n">>, <<"K", "i">>, <<"M", "i">>, <<"G", "i">>, <<"m">>,
      <<"K">>, <<"k", "i">>, <<"N">>, <<"n", "n">>, <<"K", "i", " ">> }

\* ------------------------------------------------- kube/tools/metrics.rs
\* the two fetches of get_node_metrics_with_usage and their endpoints
Sides == {"nodes", "metrics"}
Endpoint(side) ==
    IF side = "nodes" THEN "/api/v1/nodes" ELSE "/apis/metrics.k8s.io/v1beta1/nodes"

\* the pieces of the JSON texts of the two list responses, and two bodies that are neither list
KubeJson(s) ==
    CASE s = "items_open" ->
           <<"{", "\"", "i", "t", "e", "m", "s", "\"", ":", "[">>
      [] s = "name_open" ->
           <<"{", "\"", "m", "e", "t", "a", "d", "a", "t", "a", "\"", ":", "{", "\"", "n", "a", "m", "e", "\"", ":", "\"">>
      [] s = "capacity_cpu" ->
           <<"\"", "}", ",", "\"", "s", "t", "a", "t", "u", "s", "\"", ":", "{", "\"", "c", "a", "p", "a", "c", "i", "t", "y", "\"", ":", "{", "\"", "c", "p", "u", "\"", ":", "\"">>
      [] s = "usage_cpu" ->
           <<"\"", "}", ",", "\"", "u", "s", "a", "g", "e", "\"", ":", "{", "\"", "c", "p", "u", "\"", ":", "\"">>
      [] s = "memory" ->
           <<"\"", ",", "\"", "m", "e", "m", "o", "r", "y", "\"", ":", "\"">>
      [] s = "node_end" ->
           <<"\"", "}", "}", "}">>
      [] s = "metrics_end" ->
           <<"\"", "}", "}">>
      [] s = "status" ->
           <<"{", "\"", "k", "i", "n", "d", "\"", ":", "\"", "S", "t", "a", "t", "u", "s", "\"", ",", "\"", "s", "t", "a", "t", "u", "s", "\"", ":", "\"", "F", "a", "i", "l", "u", "r", "e", "\"", "}">>
      [] s = "items_cut" ->
           <<"{", "\"", "i", "t", "e", "m", "s", "\"", ":", "[">>

\* the text of a NodeListResponse and of a NodeMetricsListResponse
EncodeNodeList(items) ==
    LET EncodeNode(n) ==
            KubeJson("name_open") \o n.name \o KubeJson("capacity_cpu") \o n.cpu
            \o KubeJson("memory") \o n.memory \o KubeJson("node_end")
    IN
    KubeJson("items_open")
    \o join([i \in 1..Len(items) |-> EncodeNode(items[i])], <<",">>)
    \o <<"]", "}">>

EncodeNodeMetricsList(items) ==
    LET EncodeNodeMetrics(m) ==
            KubeJson("name_open") \o m.name \o KubeJson("usage_cpu") \o m.cpu
            \o KubeJson("memory") \o m.memory \o KubeJson("metrics_end")
    IN
    KubeJson("items_open")
    \o join([i \in 1..Len(items) |-> EncodeNodeMetrics(items[i])], <<",">>)
    \o <<"]", "}">>

\* serde_json::from_str::<NodeListResponse>: Some(items) when the text is a
\* node list, None (Err) when it is anything else
from_str_nodes(text) ==
    IF \E items \in NodeLists : EncodeNodeList(items) = SkipWhitespace(text)
    THEN Some(CHOOSE items \in NodeLists :
                 EncodeNodeList(items) = SkipWhitespace(text))
    ELSE None

\* serde_json::from_str::<NodeMetricsListResponse>
from_str_metrics(text) ==
    IF \E items \in MetricsLists :
          EncodeNodeMetricsList(items) = SkipWhitespace(text)
    THEN Some(CHOOSE items \in MetricsLists :
                 EncodeNodeMetricsList(items) = SkipWhitespace(text))
    ELSE None

\* inventory entries and metrics entries the cluster answers with
Sample(s) ==
    CASE s = "NodeA" ->
           [name |-> Field("a"), cpu |-> Field("2"), memory |-> Field("100Ki")]
      [] s = "NodeB" ->
           [name |-> Field("b"), cpu |-> Field("2"), memory |-> Field("100Ki")]
      [] s = "NodeA_m" ->
           [name |-> Field("a"), cpu |-> Field("500m"), memory |-> Field("100Ki")]
      [] s = "UsageA" ->
           [name |-> Field("a"), cpu |-> Field("5n"), memory |-> Field("50Ki")]
      [] s = "UsageB" ->
           [name |-> Field("b"), cpu |-> Field("5n"), memory |-> Field("50Ki")]
      [] s = "UsageA_50" ->
           [name |-> Field("a"), cpu |-> Field("5n"), memory |-> Field("50")]

\* what the cluster does with a GET: the send fails, the read of the body
\* fails, or a body arrives: a list of either kind, or a text that is no list
Outcomes(side) ==
    LET NodeBodies ==
          {EncodeNodeList(l) : l \in {<<>>, <<Sample("NodeA")>>, <<Sample("NodeB"), Sample("NodeA")>>, <<Sample("NodeA_m")>>}}
          \cup {KubeJson("status"), KubeJson("items_cut"), EncodeNodeMetricsList(<<Sample("UsageA")>>)}
        MetricsBodies ==
          {EncodeNodeMetricsList(l) :
              l \in {<<>>, <<Sample("UsageA")>>, <<Sample("UsageA"), Sample("UsageB")>>, <<Sample("UsageA_50")>>}}
          \cup {KubeJson("status"), KubeJson("items_cut"), EncodeNodeList(<<Sample("NodeA")>>)}
    IN
    {[k |-> "send_err"], [k |-> "body_err"]}
    \cup {[k |-> "body", text |-> t] :
            t \in IF side = "nodes" THEN NodeBodies ELSE MetricsBodies}

\* what the cluster does with the GETs of a later call: the send fails, or
\* a list arrives that differs from those of the first call
LaterOutcomes(side) ==
    {[k |-> "send_err"],
     [k |-> "body",
      text |-> IF side = "nodes"
               THEN EncodeNodeList(<<Sample("NodeB")>>)
               ELSE EncodeNodeMetricsList(<<Sample("UsageB")>>)]}

\* KubeAgent::new: the API server and the token of the client
KubeAgent == [kube_api_server |-> "https://kubernetes.default.svc",
              token           |-> "token"]

\* the request make_request builds and sends: a GET of
\* format!("{}{}", kube_api_server, endpoint) with the default header
\* Authorization: format!("Bearer {}", token); a format! is kept as the
\* tuple of its pieces
Get(endpoint) ==
    [method        |-> "GET",
     url           |-> <<KubeAgent.kube_api_server, endpoint>>,
     authorization |-> <<"Bearer ", KubeAgent.token>>]

\* KubeAgent::make_request once the cluster has answered: send().await and
\* text().await resolve to the body or to the reqwest error
make_request(outcome) ==
    IF outcome.k = "send_err" THEN Err(HttpError("send"))
    ELSE IF outcome.k = "body_err" THEN Err(HttpError("body"))
    ELSE Ok(outcome.text)

\* a parse whose failure yields an empty list
map_json_default_empty(parsed) ==
    IF IsSome(parsed) THEN Ok(Unwrap(parsed)) ELSE Ok(<<>>)

\* .map_err(|e| KubeAgentError::from(e))? on the serde result
map_json(parsed) ==
    IF IsSome(parsed) THEN Ok(Unwrap(parsed)) ELSE Err(JsonParseError("serde"))

\* NodeMetricsTool::get_nodes from the answer of the cluster on
get_nodes(outcome) ==
    LET body == make_request(outcome)
    IN  IF ~body.ok THEN body
        ELSE map_json(from_str_nodes(body.value))

\* NodeMetricsTool::get_node_metrics from the answer of the cluster on
get_node_metrics(outcome) ==
    LET body == make_request(outcome)
    IN  IF ~body.ok THEN body
        ELSE map_json(from_str_metrics(body.value))

\* a call that issues the inventory GET alone
IssuedByJoin_nodes_only ==
    <<Get("/api/v1/nodes")>>

\* a call that sends the inventory GET a second time
IssuedByJoin_retry ==
    <<Get("/api/v1/nodes"), Get("/api/v1/nodes"),
      Get("/apis/metrics.k8s.io/v1beta1/nodes")>>

\* tokio::join!(self.get_nodes(), self.get_node_metrics()): the first poll
\* polls both futures, the inventory one first, and each issues its GET
IssuedByJoin ==
    <<Get(Endpoint("nodes")), Get(Endpoint("metrics"))>>

\* a join that ends as soon as the inventory fetch has failed
JoinDone_inventory_error_first(f) ==
    /\ f["nodes"].st = "ready"
    /\ (~Unwrap(f["nodes"].res).ok \/ f["metrics"].st = "ready")

\* tokio::join!: both futures have completed
JoinDone(f) == \A s \in Sides : f[s].st = "ready"

\* get_node_metrics_with_usage after the join: the two "?" and the combine
after_join(nodes_result, metrics_result) ==
    IF ~nodes_result.ok THEN nodes_result
    ELSE IF ~metrics_result.ok THEN metrics_result
    ELSE combine_with_nodes(metrics_result.value, nodes_result.value)

\* the server is not part of a run of the metrics tool
ServerQuiet ==
    /\ api_key = Key("abc")
    /\ pc = "accept"
    /\ stream = None
    /\ request_str = None
    /\ request = None
    /\ key_check = "none"
    /\ handler = "none"
    /\ body_read = FALSE
    /\ agent_calls = <<>>
    /\ response = None
    /\ agent_result = None
    /\ sends = 0
    /\ wire = <<>>
    /\ result = "none"
    /\ conn = 0
    /\ open = {}
    /\ served = <<>>
    /\ log = <<>>

InitKube ==
    /\ ServerQuiet
    /\ FnIdle
    /\ kube_pc = "idle"
    /\ fut = [s \in Sides |-> [st |-> "none", res |-> None]]
    /\ cluster \in [Sides -> UNION {Outcomes(s) : s \in Sides}]
    /\ \A s \in Sides : cluster[s] \in Outcomes(s)
    /\ arrived = {}
    /\ gets = <<>>
    /\ calls = 0
    /\ kube_out = None

\* get_node_metrics_with_usage is called, for the first time or again after
\* it returned: join! polls get_nodes and then get_node_metrics, and each
\* issues its GET. answers is what the cluster does with the two GETs
Call(answers) ==
    /\ kube_pc \in {"idle", "returned"}
    /\ calls < MaxCalls
    /\ calls = 0 => answers = cluster
    /\ calls > 0 => \A s \in Sides : answers[s] \in LaterOutcomes(s)
    /\ kube_pc' = "join"
    /\ calls' = calls + 1
    /\ cluster' = answers
    /\ fut' = [s \in Sides |-> [st |-> "sending", res |-> None]]
    /\ arrived' = {}
    /\ kube_out' = None
    /\ gets' = gets \o IssuedByJoin
    /\ UNCHANGED <<server_vars, fn_vars>>

\* the answer of the cluster to one GET arrives
Respond(side) ==
    /\ kube_pc = "join"
    /\ fut[side].st = "sending"
    /\ side \notin arrived
    /\ arrived' = arrived \cup {side}
    /\ UNCHANGED <<kube_pc, fut, cluster, gets, calls, kube_out>>
    /\ UNCHANGED <<server_vars, fn_vars>>

\* join! polls the future whose answer has arrived: make_request returns,
\* the body is parsed and the future completes with its Result
Poll(side) ==
    /\ kube_pc = "join"
    /\ fut[side].st = "sending"
    /\ side \in arrived
    /\ fut' = [fut EXCEPT ![side] =
                 [st |-> "ready",
                  res |-> Some(IF side = "nodes" THEN get_nodes(cluster[side])
                               ELSE get_node_metrics(cluster[side]))]]
    /\ UNCHANGED <<kube_pc, cluster, arrived, gets, calls, kube_out>>
    /\ UNCHANGED <<server_vars, fn_vars>>

\* join! completes and get_node_metrics_with_usage returns
Return ==
    /\ kube_pc = "join"
    /\ JoinDone(fut)
    /\ kube_pc' = "returned"
    /\ kube_out' = Some(after_join(Unwrap(fut["nodes"].res),
                                   Unwrap(fut["metrics"].res)))
    /\ UNCHANGED <<fut, cluster, arrived, gets, calls>>
    /\ UNCHANGED <<server_vars, fn_vars>>

NextKube ==
    \/ \E answers \in [Sides -> UNION {Outcomes(s) \cup LaterOutcomes(s) : s \in Sides}] :
          Call(answers)
    \/ \E side \in Sides : Respond(side)
    \/ \E side \in Sides : Poll(side)
    \/ Return

SpecKube == InitKube /\ [][NextKube]_vars

\* ---- the functions of kube/types/metrics.rs applied to their inputs
InitMetrics ==
    /\ ServerQuiet
    /\ KubeIdle
    /\ fn_op = "none"
    /\ fn_args \in {[nodes |-> ns, metrics |-> ms] :
                       ns \in NodeLists, ms \in MetricsLists}
                   \cup {[text |-> q \o m] : q \in QuantityNumbers, m \in QuantityMarkers}
    /\ fn_ret = None
    /\ overflow_checks \in BOOLEAN

IsLists(a) == DOMAIN a = {"nodes", "metrics"}

\* metrics.combine_with_nodes(&nodes)
Combine ==
    /\ fn_op = "none"
    /\ IsLists(fn_args)
    /\ fn_op' = "combine_with_nodes"
    /\ fn_ret' = Some(combine_with_nodes(fn_args.metrics, fn_args.nodes))
    /\ UNCHANGED <<fn_args, overflow_checks, server_vars, kube_vars>>

\* parse_cpu_nanoseconds(&metrics.usage.cpu)
ParseCpuNanoseconds ==
    /\ fn_op = "none"
    /\ ~IsLists(fn_args)
    /\ fn_op' = "parse_cpu_nanoseconds"
    /\ fn_ret' = Some(parse_cpu_nanoseconds(fn_args.text))
    /\ UNCHANGED <<fn_args, overflow_checks, server_vars, kube_vars>>

\* parse_memory_ki(&node.status.capacity.memory), (&metrics.usage.memory)
ParseMemoryKi ==
    /\ fn_op = "none"
    /\ ~IsLists(fn_args)
    /\ fn_op' = "parse_memory_ki"
    /\ fn_ret' = Some(parse_memory_ki(fn_args.text))
    /\ UNCHANGED <<fn_args, overflow_checks, server_vars, kube_vars>>

\* node.status.capacity.cpu.parse::<f64>()
ParseCpuCapacity ==
    /\ fn_op = "none"
    /\ ~IsLists(fn_args)
    /\ fn_op' = "parse_cpu_capacity"
    /\ fn_ret' = Some(parse_cpu_capacity(fn_args.text))
    /\ UNCHANGED <<fn_args, overflow_checks, server_vars, kube_vars>>

NextMetrics ==
    \/ Combine
    \/ ParseCpuNanoseconds
    \/ ParseMemoryKi
    \/ ParseCpuCapacity

SpecMetrics == InitMetrics /\ [][NextMetrics]_vars


\* =====================================================================
\* Properties
\* =====================================================================

\* send_response has been called on the open connection: its write is about
\* to be made or has been made
Done == pc \in {"done", "return"} /\ response # None

\* the request of the open connection has been decoded
Decoded == IsSome(request)

\* the text read from the open connection, once it has been read
HasRead == IsSome(request_str)
Text == Unwrap(request_str)

\* the decoded request carries no key, or a key other than the configured one
KeyInvalid ==
    /\ Decoded
    /\ \/ Unwrap(request).api_key = None
       \/ Unwrap(Unwrap(request).api_key) # api_key

\* the response written has this status line
Answered(status) == IsSome(response) /\ Unwrap(response).status = status

\* no handler has run and the backend has not been called
NothingDispatched ==
    /\ handler = "none"
    /\ ~body_read
    /\ agent_calls = <<>>

\* C1: for every decoded request, a missing key is answered 401 and a key
\* other than the configured one 403, and handle_client returns before path
\* dispatch: no handler runs and the backend is never called.
C1_AuthBeforeDispatch ==
    KeyInvalid =>
        /\ NothingDispatched
        /\ pc \in {"auth", "done", "return"}
        /\ pc = "auth" => response = None
        /\ Done =>
              IF Unwrap(request).api_key = None
              THEN Answered("401 Unauthorized")
              ELSE Answered("403 Forbidden")

\* a health check GET / with a wrong key has been answered 403
C1_Witness ==
    /\ Done
    /\ Decoded
    /\ Unwrap(request).method = "GET"
    /\ Unwrap(request).path = "Root"
    /\ IsSome(Unwrap(request).api_key)
    /\ KeyInvalid
    /\ Answered("403 Forbidden")

\* the header loop of the decoder applied to the raw text, whatever its first
\* line is: the key the bytes of the request carry
CarriedKey(text) == ParseHeaders(lines(text), 2, 0, None).api_key

\* the bytes of the request carry no key, or a key other than the configured one
CarriesNoValidKey(text) ==
    \/ CarriedKey(text) = None
    \/ Unwrap(CarriedKey(text)) # api_key

\* C2 as stated: every inbound request without a valid key, whatever its
\* method, path or body, is answered 401 or 403 (stated for the requests that
\* have a method and a path at all: two tokens on their first line).
C2_Original ==
    (/\ Done
     /\ HasRead
     /\ lines(Text) # <<>>
     /\ Len(split_whitespace(lines(Text)[1])) >= 2
     /\ CarriesNoValidKey(Text)) =>
        (Answered("401 Unauthorized") \/ Answered("403 Forbidden"))

\* C2 as amended: the key check is the first processing of a decoded request.
\* A step taken with a decoded request that has no valid key answers 401 or
\* 403 and ends the handling; a handler runs, the body is taken or the backend
\* is called only in a state where the key check has already passed; a
\* request that does not decode is answered 400 with no key check at all.
C2_KeyCheckFirst ==
    [][ /\ (pc = "auth" /\ KeyInvalid) =>
              /\ pc' = "done"
              /\ key_check' \in {"401", "403"}
              /\ (key_check' = "401") = (Unwrap(request).api_key = None)
              /\ response' = (IF key_check' = "401"
                              THEN send_response("401 Unauthorized", "Missing API key")
                              ELSE send_response("403 Forbidden", "Invalid API key"))
              /\ NothingDispatched'
        /\ (pc # "return" /\ (handler' # handler \/ body_read' # body_read
                            \/ agent_calls' # agent_calls)) =>
              key_check = "ok"
        /\ (pc = "read" /\ HasRead' /\ ~Decoded') =>
              /\ key_check' = "none"
              /\ response' = send_response("400 Bad Request", "Invalid request")
      ]_vars

\* a POST /chat that brought a body and a wrong key has been answered 403
C2_Witness ==
    /\ Done
    /\ Decoded
    /\ Unwrap(request).method = "POST"
    /\ Unwrap(request).path = "Chat"
    /\ IsSome(Unwrap(request).body)
    /\ IsSome(Unwrap(request).api_key)
    /\ key_check = "403"
    /\ Answered("403 Forbidden")

\* the key check passed for the decoded request
Authenticated == Decoded /\ key_check = "ok"

\* C3: with a valid key the router follows the dispatch table: GET / is
\* answered 200 with the body {"healthy": true}, /favicon.ico is answered 404
\* for GET and for POST, POST /chat goes to the chat handler, and the handler
\* that runs is always the one of the request's own path.
C3_DispatchTable ==
    Authenticated =>
        LET req == Unwrap(request)
        IN  /\ (Done /\ req.path = "Root" /\ req.method = "GET") =>
                  response = Some([status |-> "200 OK",
                                   body |-> "{\"healthy\": true}"])
            /\ (Done /\ req.path = "Favicon") =>
                  /\ Answered("404 Not Found")
                  /\ handler = "favicon"
            /\ (pc \in {"chat", "done", "return"} /\ req.path = "Chat" /\ req.method = "POST") =>
                  handler = "chat"
            /\ handler # "none" =>
                  \/ handler = "root" /\ req.path = "Root"
                  \/ handler = "chat" /\ req.path = "Chat"
                  \/ handler = "favicon" /\ req.path = "Favicon"
            /\ pc \in {"chat", "done", "return"} => handler # "none"

\* a POST /favicon.ico with the valid key has been answered 404
C3_Witness ==
    /\ Done
    /\ Authenticated
    /\ Unwrap(request).path = "Favicon"
    /\ Unwrap(request).method = "POST"
    /\ Answered("404 Not Found")

\* the text starts with the request line "GET /chat"
StartsWithGetChat(text) ==
    /\ starts_with(text, Txt("get_chat"))
    /\ Len(text) > Len(Txt("get_chat")) => IsWhitespace(text[Len(Txt("get_chat")) + 1])

\* C4: a request whose first line is GET /chat is decoded (Request::parse does
\* not return None), and with a valid key it is answered 405, not 400, without
\* the body being taken and without a backend call.
C4_GetChat405 ==
    (HasRead /\ StartsWithGetChat(Text)) =>
        /\ Decoded
        /\ pc # "chat"
        /\ ~body_read
        /\ agent_calls = <<>>
        /\ (Done /\ key_check = "ok") =>
              /\ response = Some([status |-> "405 Method Not Allowed",
                                  body |-> "Invalid method for /chat"])
              /\ handler = "chat"

\* a GET /chat with the valid key and a body has been answered 405
C4_Witness ==
    /\ Done
    /\ Authenticated
    /\ StartsWithGetChat(Text)
    /\ IsSome(Unwrap(request).body)
    /\ Unwrap(Unwrap(request).body) # <<>>
    /\ Answered("405 Method Not Allowed")

\* C5 as stated: with a valid key, a known path with a method the dispatch
\* table does not list for it (GET on /chat, POST on /) is answered 405, and
\* the 200 health reply is produced only for (Root, GET).
C5_MethodMismatch405 ==
    (Done /\ Authenticated) =>
        LET req == Unwrap(request)
        IN  /\ (req.path = "Chat" /\ req.method = "GET") =>
                  Answered("405 Method Not Allowed")
            /\ (req.path = "Root" /\ req.method = "POST") =>
                  Answered("405 Method Not Allowed")
            /\ response = root_handler =>
                  (req.path = "Root" /\ req.method = "GET")

\* ---------------------------------------- the decoder, stated on the text

\* the text up to its first "\n"
FirstLineText(text) ==
    LET nl == {i \in 1..Len(text) : text[i] = LF}
    IN  IF nl = {} THEN text ELSE SubSeq(text, 1, SetMin(nl) - 1)

HasTokenAt(line, i, tok) ==
    /\ i + Len(tok) - 1 <= Len(line)
    /\ SubSeq(line, i, i + Len(tok) - 1) = tok

AllWhitespace(line, i, j) == \A k \in i..j : IsWhitespace(line[k])

MethodTokens == {Str("GET"), Str("POST")}
PathTokens == {Str("chat"), Str("root"), Str("favicon")}

\* the line is: optional white space, a known method token, white space, a
\* known path token, and then the end of the line or white space
RequestLineOk(line) ==
    \E a \in 1..Len(line), m \in MethodTokens :
        /\ AllWhitespace(line, 1, a - 1)
        /\ HasTokenAt(line, a, m)
        /\ \E b \in (a + Len(m) + 1)..Len(line), p \in PathTokens :
              /\ AllWhitespace(line, a + Len(m), b - 1)
              /\ HasTokenAt(line, b, p)
              /\ (b + Len(p) > Len(line) \/ IsWhitespace(line[b + Len(p)]))

HeaderEnd(ls) ==
    LET empty == {k \in 2..Len(ls) : ls[k] = <<>>}
    IN  IF empty = {} THEN Len(ls) + 1 ELSE SetMin(empty)

\* the header lines of the text: after the first line, before the empty line
HeaderSection(text) ==
    LET ls == lines(text) IN SubSeq(ls, 2, HeaderEnd(ls) - 1)

\* the line begins with this header name and colon, in any letter case
NameIs(line, name) ==
    /\ Len(line) >= Len(name)
    /\ \A i \in 1..Len(name) : LowerChar(line[i]) = name[i]

\* the text between the first colon of the line and the next one (or the end
\* of the line), without the white space around it
FieldValue(line) ==
    LET cs    == {i \in 1..Len(line) : line[i] = Colon}
        c1    == SetMin(cs)
        later == {i \in cs : i > c1}
        c2    == IF later = {} THEN Len(line) + 1 ELSE SetMin(later)
    IN  trim(SubSeq(line, c1 + 1, c2 - 1))

\* the last header line with this name, if any
LastNamed(hdr, name) ==
    LET idx == {i \in 1..Len(hdr) : NameIs(hdr[i], name)}
    IN  IF idx = {} THEN None ELSE Some(hdr[SetMax(idx)])

\* the content length the header section declares: the i32 value of its last
\* content-length line, 0 when there is none or its value is no i32
DeclaredContentLength(text) ==
    LET l == LastNamed(HeaderSection(text), Str("content_length"))
    IN  IF l = None THEN 0
        ELSE unwrap_or(parse_i32(FieldValue(Unwrap(l))), 0)

\* the key the header section presents: the value of its last x-api-key line
DeclaredApiKey(text) ==
    LET l == LastNamed(HeaderSection(text), Str("x_api_key"))
    IN  IF l = None THEN None ELSE Some(FieldValue(Unwrap(l)))

AfterHeaderTerminator(text) ==
    LET n    == Len(text)
        ends == {p \in 1..n :
                    /\ text[p] = LF
                    /\ \/ p + 1 <= n /\ text[p + 1] = LF
                       \/ p + 2 <= n /\ text[p + 1] = CR /\ text[p + 2] = LF}
    IN  IF ends = {} THEN <<>>
        ELSE LET p == SetMin(ends)
             IN  SubSeq(text, IF text[p + 1] = LF THEN p + 2 ELSE p + 3, n)

\* C8 as stated: when content-length is greater than zero, the body of the
\* decoded request equals, character for character, everything in the input
\* after the empty line that ends the headers.
C8_BodyVerbatim ==
    (Decoded /\ IsSome(Unwrap(request).body)) =>
        Unwrap(Unwrap(request).body) = AfterHeaderTerminator(Text)

\* the text with one LF after each of these lines
RECURSIVE Unlines(_)
Unlines(ls) == IF ls = <<>> THEN <<>> ELSE Head(ls) \o <<LF>> \o Unlines(Tail(ls))

\* the text without the header lines that are neither an x-api-key nor a
\* content-length line
WithoutOtherHeaders(text) ==
    LET ls == lines(text)
        e  == HeaderEnd(ls)
    IN  Unlines(<<ls[1]>>
                \o SelectSeq(SubSeq(ls, 2, e - 1),
                             LAMBDA l : NameIs(l, Str("x_api_key"))
                                        \/ NameIs(l, Str("content_length")))
                \o SubSeq(ls, e, Len(ls)))

\* the text up to and including the empty line that ends the headers
UpToHeaderTerminator(text) ==
    SubSeq(text, 1, Len(text) - Len(AfterHeaderTerminator(text)))

\* C9: the decoder scans the header lines by name in any letter case and
\* stops at the first empty line: the key of the decoded request is the one
\* of the x-api-key lines of the header section, the request is the same
\* without the other header lines, and the lines after the empty line change
\* neither the key nor the presence of a body.
C9_HeaderScan ==
    Decoded =>
        LET req == Unwrap(request)
            cut == Request_parse(UpToHeaderTerminator(Text))
        IN  /\ req.api_key = DeclaredApiKey(Text)
            /\ request = Request_parse(WithoutOtherHeaders(Text))
            /\ IsSome(cut)
            /\ Unwrap(cut).api_key = req.api_key
            /\ IsSome(Unwrap(cut).body) = IsSome(req.body)

\* a request with another header, no key in its header section and an
\* X-Api-Key line in its body has been answered 401
C9_Witness ==
    /\ Done
    /\ Decoded
    /\ LET ls == lines(Text)
       IN  /\ \E i \in 2..(HeaderEnd(ls) - 1) :
                 ~NameIs(ls[i], Str("x_api_key")) /\ ~NameIs(ls[i], Str("content_length"))
           /\ \E i \in (HeaderEnd(ls) + 1)..Len(ls) : NameIs(ls[i], Str("x_api_key"))
    /\ Unwrap(request).api_key = None
    /\ Answered("401 Unauthorized")

\* the body of the decoded request is a ChatRequest whose chat_history has an
\* entry with a role other than "user" and "assistant"
HasInvalidRole ==
    /\ Decoded
    /\ IsSome(Unwrap(request).body)
    /\ LET chat_req == from_str(Unwrap(Unwrap(request).body))
       IN  /\ IsSome(chat_req)
           /\ IsSome(Unwrap(chat_req).chat_history)
           /\ \E i \in 1..Len(Unwrap(Unwrap(chat_req).chat_history)) :
                 Unwrap(Unwrap(chat_req).chat_history)[i].role
                     \notin {Str("user"), Str("assistant")}

\* C10: for an authenticated POST /chat whose JSON body decodes, an entry of
\* chat_history with a role other than "user" or "assistant", at any position,
\* makes the response 400, and the backend is never called: no converted
\* prefix of the history is forwarded.
C10_InvalidRole400 ==
    (/\ Authenticated
     /\ Unwrap(request).method = "POST"
     /\ Unwrap(request).path = "Chat"
     /\ HasInvalidRole) =>
        /\ agent_calls = <<>>
        /\ pc \in {"dispatch", "done", "return"}
        /\ Done =>
              response = Some([status |-> "400 Bad Request",
                               body |-> "Invalid message role in chat history"])

\* a POST /chat whose history has a valid entry and then an invalid one has
\* been answered 400
C10_Witness ==
    /\ Done
    /\ Authenticated
    /\ Unwrap(request).method = "POST"
    /\ Unwrap(request).path = "Chat"
    /\ HasInvalidRole
    /\ Unwrap(Unwrap(from_str(Unwrap(Unwrap(request).body))).chat_history)[1].role
           = Str("user")
    /\ body_read
    /\ Answered("400 Bad Request")

\* ---------------------------------------------------------------- C11
\* the chat envelopes a body denotes: the documents the body is the text of
\* and whose history has no entry with a role other than user and assistant
EnvelopesOf(body) ==
    {doc \in JsonDocs :
        /\ EncodeChat(doc, <<>>) = SkipWhitespace(body)
        /\ \A i \in 1..Len(doc.items) :
              doc.items[i].role \in {Str("user"), Str("assistant")}}

\* the call of the backend an envelope asks for: its prompt and its history,
\* entry by entry in the order of the document, empty when the field is
\* null or absent
ExpectedCall(doc) ==
    [prompt |-> doc.prompt,
     chat_history |->
        [i \in 1..Len(doc.items) |->
            [role |-> IF doc.items[i].role = Str("user") THEN "user" ELSE "assistant",
             content |-> doc.items[i].content]]]

\* the key check passed for a POST /chat and chat_handler has run
ChatHandled ==
    /\ Authenticated
    /\ Unwrap(request).method = "POST"
    /\ Unwrap(request).path = "Chat"
    /\ pc # "dispatch"

\* the envelopes of the body of the decoded request
RequestEnvelopes ==
    IF Unwrap(request).body = None THEN {}
    ELSE EnvelopesOf(Unwrap(Unwrap(request).body))

\* C11: for an authenticated POST /chat, a missing body or a body that is no
\* chat envelope is answered 400 and the backend is not called; otherwise
\* the backend is called exactly once with the prompt and the whole history
\* in order, its success is answered 200 with its text as the body and its
\* failure 500, with no second call.
C11_ChatContract ==
    ChatHandled =>
        IF RequestEnvelopes = {}
        THEN /\ agent_calls = <<>>
             /\ agent_result = None
             /\ Done
             /\ Answered("400 Bad Request")
        ELSE /\ \E doc \in RequestEnvelopes : agent_calls = <<ExpectedCall(doc)>>
             /\ pc = "chat" => (response = None /\ agent_result = None)
             /\ pc # "chat" =>
                   /\ Done
                   /\ IsSome(agent_result)
                   /\ response =
                         IF Unwrap(agent_result).ok
                         THEN Some([status |-> "200 OK",
                                    body |-> Unwrap(agent_result).text])
                         ELSE Some([status |-> "500 Internal Server Error",
                                    body |-> "Failed to generate response"])

\* a POST /chat with a history of a user and an assistant message was handed
\* to the backend once, the backend answered "pong", and that is the 200 body
C11_Witness ==
    /\ ChatHandled
    /\ Done
    /\ Len(agent_calls) = 1
    /\ Len(agent_calls[1].chat_history) = 2
    /\ agent_calls[1].chat_history[1].role = "user"
    /\ agent_calls[1].chat_history[2].role = "assistant"
    /\ agent_result = Some([ok |-> TRUE, text |-> "pong"])
    /\ response = Some([status |-> "200 OK", body |-> "pong"])

\* ---------------------------------------------------------------- C12
\* write_all completed on the open connection
Written ==
    /\ pc = "return"
    /\ served # <<>>
    /\ served[Len(served)] = conn

\* the places of the stream where an empty line ends the head
HeadEnds(bytes) ==
    {i \in 1..(Len(bytes) - 3) : SubSeq(bytes, i, i + 3) = CRLF \o CRLF}

\* the bytes are a response with this status and this body: a head of two
\* lines, the status line and the Content-Length line with the length of
\* the body in decimal, an empty line, and the body
IsFramed(bytes, status, body) ==
    /\ HeadEnds(bytes) # {}
    /\ LET e    == SetMin(HeadEnds(bytes))
           head == lines(SubSeq(bytes, 1, e - 1))
           rest == SubSeq(bytes, e + 4, Len(bytes))
       IN  /\ Len(head) = 2
           /\ head[1] = Fmt("http_1_1") \o status
           /\ starts_with(head[2], Fmt("content_length"))
           /\ parse_i32(SubSeq(head[2], Len(Fmt("content_length")) + 1,
                               Len(head[2]))) = Some(Len(rest))
           /\ rest = body

\* C12: what the server writes on a connection is one response: the status
\* line, one Content-Length header with the byte length of the body, an empty
\* line and the body, and no other header; send_response is called at most
\* once on a connection, and once handle_client has returned the next step
\* drops the stream, which closes the connection.
C12_ResponseFraming ==
    /\ [](/\ sends <= 1
          /\ Written =>
                /\ sends = 1
                /\ IsFramed(wire, as_bytes(Unwrap(response).status),
                                  as_bytes(Unwrap(response).body)))
    /\ [][pc = "return" =>
             /\ stream' = None
             /\ open' = {}
             /\ wire' = <<>>
             /\ sends' = 0]_vars

\* the 200 answer of the backend "pong" is on the stream, 4 bytes of body
C12_Witness ==
    /\ Written
    /\ Unwrap(response).status = "200 OK"
    /\ Unwrap(response).body = "pong"
    /\ SubSeq(wire, Len(wire) - 7, Len(wire)) = CRLF \o CRLF \o as_bytes("pong")

\* ---------------------------------------------------------------- C13
\* the connection ids of a sequence are strictly increasing
Increasing(ids) == \A i, j \in 1..Len(ids) : i < j => ids[i] < ids[j]

\* C13: at most one connection is open at any time: none while listen waits
\* for the next one, and otherwise only the one accepted last, every earlier
\* one having been handled to its end; the responses are written in the
\* order in which the connections were accepted.
C13_OneConnectionAtATime ==
    /\ Cardinality(open) <= 1
    /\ pc = "accept" => (open = {} /\ stream = None)
    /\ pc # "accept" => (open = {conn} /\ IsSome(stream))
    /\ Increasing(served)
    /\ \A i \in 1..Len(served) : served[i] \in 1..conn

\* two connections have been accepted and answered, the first one first
C13_Witness ==
    /\ served = <<1, 2>>
    /\ Written

\* ---------------------------------------------------------------- C14
\* p is a prefix of s
IsPrefix(p, s) == Len(p) <= Len(s) /\ SubSeq(s, 1, Len(p)) = p

\* handle_client returned an error to listen
TransportError == pc = "return" /\ result = "err"

\* C14 as stated: after a transport error no partial response is on the
\* stream.
C14_Original ==
    TransportError =>
        \/ wire = <<>>
        \/ (response # None /\ wire = ResponseBytes(Unwrap(response)))

\* C14 as amended: a failed accept is logged with warn! and nothing is read
\* or written; a failed read leaves the stream without a byte of a response;
\* a failed write or flush leaves a prefix of the one response on it (which
\* may be a part of the response) and nothing is written after it; the error
\* handle_client returns is logged with error!, exactly when there is one,
\* and in every case the loop goes on to the next connection.
C14_TransportErrors ==
    /\ [](TransportError =>
             /\ sends <= 1
             /\ response = None => (wire = <<>> /\ request_str = None)
             /\ response # None => IsPrefix(wire, ResponseBytes(Unwrap(response))))
    /\ [][/\ (pc = "accept" /\ pc' = "accept" /\ conn' # conn) =>
                /\ log' = Append(log, [conn |-> conn', level |-> "warn"])
                /\ stream' = None
                /\ served' = served
                /\ wire' = <<>>
          /\ pc = "return" =>
                /\ pc' = "accept"
                /\ served' = served
                /\ log' = IF result = "err"
                          THEN Append(log, [conn |-> conn, level |-> "error"])
                          ELSE log
          /\ pc \notin {"accept", "return"} => log' = log]_vars

\* the handling of the first connection failed before its response was
\* written and was logged, and the second connection has got its whole response
C14_Witness ==
    /\ log = <<[conn |-> 1, level |-> "error"]>>
    /\ served = <<2>>
    /\ Written
    /\ result = "ok"

\* ---------------------------------------------------------------- C15
\* the fetch of this side has completed by parsing the body that arrived
Parsed(f, side) == f[side].st = "ready" /\ cluster[side].k = "body"

\* the GETs issued by the call that is running or has returned
CallGets == SubSeq(gets, 2 * (calls - 1) + 1, Len(gets))

\* C15 as stated: the two fetches are issued together and no response is
\* consumed, that is parsed or joined, before both have arrived.
C15_Original ==
    [][\A side \in Sides :
          (~Parsed(fut, side) /\ Parsed(fut', side)) =>
              (Len(CallGets) = 2 /\ arrived = Sides)]_vars

\* C15 as amended: both GETs are issued before either fetch completes; each
\* fetch parses its own response once that response has arrived, whether or
\* not the other one has; get_node_metrics_with_usage goes on (inspects the
\* results, joins them, returns) only when both fetches have completed.
C15_JoinWaitsForBoth ==
    /\ []((\E side \in Sides : fut[side].st # "none") =>
             /\ Len(CallGets) = 2
             /\ CallGets[1].url[2] = "/api/v1/nodes"
             /\ CallGets[2].url[2] = "/apis/metrics.k8s.io/v1beta1/nodes")
    /\ [](kube_out # None =>
             (arrived = Sides /\ \A side \in Sides : fut[side].st = "ready"))
    /\ [][/\ \A side \in Sides :
                (fut[side].st # "ready" /\ fut'[side].st = "ready") =>
                    side \in arrived
          /\ (kube_out' # kube_out /\ kube_out' # None) =>
                \A side \in Sides : fut[side].st = "ready"]_vars

\* the inventory has been parsed while the answer to the metrics GET has not
\* arrived yet
C15_Witness ==
    /\ Parsed(fut, "nodes")
    /\ Unwrap(fut["nodes"].res).ok
    /\ Len(Unwrap(fut["nodes"].res).value) = 2
    /\ "metrics" \notin arrived
    /\ Len(CallGets) = 2
    /\ kube_out = None

\* ---------------------------------------------------------------- C16
\* combine_with_nodes has been applied to this inventory and these metrics
Combined == fn_op = "combine_with_nodes"
Ms == fn_args.metrics
Ns == fn_args.nodes
Ret == Unwrap(fn_ret)

\* the metrics entries whose name no inventory entry has
Unmatched == {i \in 1..Len(Ms) : \A j \in 1..Len(Ns) : Ns[j].name # Ms[i].name}

\* the first inventory entry with the name of the i-th metrics entry
NodeOf(i) == Ns[SetMin({j \in 1..Len(Ns) : Ns[j].name = Ms[i].name})]

\* the matched metrics entries one of whose four quantities does not parse
Unparsed ==
    {i \in (1..Len(Ms)) \ Unmatched :
        \/ ~parse_cpu_capacity(NodeOf(i).cpu).ok
        \/ ~parse_memory_ki(NodeOf(i).memory).ok
        \/ ~parse_cpu_nanoseconds(Ms[i].cpu).ok
        \/ ~parse_memory_ki(Ms[i].memory).ok}

\* the matched metrics entries whose quantities parse and whose memory usage
\* times 1024 exceeds u64::MAX
Overflowing ==
    {i \in (1..Len(Ms)) \ (Unmatched \cup Unparsed) :
        u64_mul(parse_memory_ki(Ms[i].memory).value, 1024).overflow}

\* the call returns no list: it returns an error, or it panics and does not
\* return
FailsWhole(r) == r = Panic \/ (~r.ok /\ DOMAIN r = {"ok", "error"})

\* C16 as stated: an unmatched metrics entry at any position makes the call
\* fail with an error that names that node.
C16_Original ==
    Combined =>
        \A i \in Unmatched :
            /\ FailsWhole(Ret)
            /\ Ret # Panic
            /\ Ret.error = ParseError(Msg("no_matching_node") \o Ms[i].name)

\* C16 as amended: an unmatched metrics entry at any position makes the
\* whole call fail with a ParseError and no list, whatever was computed for
\* the entries before it; the error is that of the first entry that fails:
\* it names the unmatched node when no earlier entry is unmatched or fails
\* to parse. In a build that checks arithmetic for overflow the call panics
\* instead, and returns nothing, when an entry before the first failing one
\* has a memory usage whose byte count exceeds u64::MAX.
C16_UnmatchedFailsWhole ==
    (Combined /\ Unmatched # {}) =>
        LET first == SetMin(Unmatched \cup Unparsed)
        IN  /\ FailsWhole(Ret)
            /\ Ret = Panic <=>
                  (overflow_checks /\ \E i \in Overflowing : i < first)
            /\ Ret # Panic =>
                  /\ Ret.error.kind = "ParseError"
                  /\ first \in Unmatched =>
                        Ret.error =
                          ParseError(Msg("no_matching_node") \o Ms[first].name)

\* the second metrics entry is the unmatched one, the first one has a node
\* and quantities that parse, and the error names the second
C16_Witness ==
    /\ Combined
    /\ Len(Ms) = 2
    /\ Unmatched = {2}
    /\ Unparsed = {}
    /\ Ret # Panic
    /\ FailsWhole(Ret)
    /\ Ret.error = ParseError(Msg("no_matching_node") \o Ms[2].name)

IsNodeListText(t) ==
    \E items \in NodeLists : EncodeNodeList(items) = SkipWhitespace(t)
IsMetricsListText(t) ==
    \E items \in MetricsLists : EncodeNodeMetricsList(items) = SkipWhitespace(t)

\* the fetch of this side failed; its body arrived and is not its list
FetchFailed(side) == cluster[side].k \in {"send_err", "body_err"}
BadBody(side) ==
    /\ cluster[side].k = "body"
    /\ IF side = "nodes" THEN ~IsNodeListText(cluster[side].text)
       ELSE ~IsMetricsListText(cluster[side].text)

KubeReturned == kube_pc = "returned"
KubeOut == Unwrap(kube_out)

\* C18: when both bodies arrive and one of them is not its list, the call
\* fails with a JsonParseError whatever the other body is; a failed fetch on
\* either side fails the call as well (with the error of the inventory side
\* when both sides fail); a failed call returns no list.
C18_ParseOrFetchFailure ==
    KubeReturned =>
        /\ ((\A side \in Sides : cluster[side].k = "body")
            /\ (\E side \in Sides : BadBody(side))) =>
               (FailsWhole(KubeOut) /\ KubeOut.error.kind = "JsonParseError")
        /\ (\E side \in Sides : BadBody(side) \/ FetchFailed(side)) =>
               /\ FailsWhole(KubeOut)
               /\ KubeOut.error.kind \in {"JsonParseError", "HttpError"}
        /\ FetchFailed("nodes") => KubeOut.error.kind = "HttpError"
        /\ BadBody("nodes") => KubeOut.error.kind = "JsonParseError"

\* the inventory is a list of two nodes, the metrics body is a Status
\* object, and the call returned a JsonParseError
C18_Witness ==
    /\ KubeReturned
    /\ cluster["nodes"] = [k |-> "body", text |-> EncodeNodeList(<<Sample("NodeB"), Sample("NodeA")>>)]
    /\ cluster["metrics"] = [k |-> "body", text |-> KubeJson("status")]
    /\ FailsWhole(KubeOut)
    /\ KubeOut.error.kind = "JsonParseError"

\* ---------------------------------------------------------------- C19
\* C19: a successful combine_with_nodes returns one entry for each metrics
\* entry, in the order of the metrics list, the i-th with the name of the
\* i-th metrics entry; a node without a metrics entry is not in it.
C19_OutputFollowsMetrics ==
    (Combined /\ Ret.ok) =>
        /\ Len(Ret.value) = Len(Ms)
        /\ \A i \in 1..Len(Ms) : Ret.value[i].name = Ms[i].name
        /\ \A j \in 1..Len(Ns) :
              (\A i \in 1..Len(Ms) : Ms[i].name # Ns[j].name) =>
                  \A i \in 1..Len(Ret.value) : Ret.value[i].name # Ns[j].name

\* the inventory lists a before b, the metrics list b before a, and so
\* does the output
C19_Witness ==
    /\ Combined
    /\ Ret.ok
    /\ Len(Ns) = 2 /\ Ns[1].name = Field("a") /\ Ns[2].name = Field("b")
    /\ Len(Ms) = 2 /\ Ms[1].name = Field("b") /\ Ms[2].name = Field("a")
    /\ Ret.value[1].name = Field("b")
    /\ Ret.value[2].name = Field("a")

\* ---------------------------------------------------------------- C20
\* the text ends with this marker
EndsWith(t, marker) ==
    Len(t) >= Len(marker) /\ SubSeq(t, Len(t) - Len(marker) + 1, Len(t)) = marker

Unsigned(t) == IF t # <<>> /\ t[1] \in {"+", "-"} THEN Tail(t) ELSE t

\* digits with at most one '.', one digit at least
IsDecimal(u) ==
    \/ u # <<>> /\ AllDigits(u)
    \/ \E p \in 1..Len(u) :
          /\ u[p] = "."
          /\ AllDigits(SubSeq(u, 1, p - 1))
          /\ AllDigits(SubSeq(u, p + 1, Len(u)))
          /\ Len(u) > 1

\* a plain decimal number, with or without a sign
IsPlainDecimal(t) == IsDecimal(Unsigned(t))

\* a decimal with an exponent, "inf", "infinity" or "nan" in any case
IsOtherF64Literal(t) ==
    \/ to_lowercase(Unsigned(t)) \in {F64Word("inf"), F64Word("infinity"), F64Word("nan")}
    \/ \E p \in 1..Len(Unsigned(t)) :
          LET u == Unsigned(t)
              x == Unsigned(SubSeq(u, p + 1, Len(u)))
          IN  /\ u[p] \in {"e", "E"}
              /\ IsDecimal(SubSeq(u, 1, p - 1))
              /\ x # <<>> /\ AllDigits(x)

\* a parser was applied to a quantity text
Applied(op) == fn_op = op
QuantityText == fn_args.text

\* C20 as stated: a CPU usage without the final 'n', a memory text without
\* the final "Ki" and a CPU capacity that is not a plain decimal number are
\* each a parse error.
C20_Original ==
    /\ (Applied("parse_cpu_nanoseconds") /\ ~EndsWith(QuantityText, <<"n">>)) =>
           ~Ret.ok
    /\ (Applied("parse_memory_ki") /\ ~EndsWith(QuantityText, <<"K", "i">>)) =>
           ~Ret.ok
    /\ (Applied("parse_cpu_capacity") /\ ~IsPlainDecimal(QuantityText)) =>
           ~Ret.ok

\* C20 as amended: a CPU usage without the final 'n' and a memory text
\* without the final "Ki" are format errors that quote the text; a CPU
\* capacity is an error exactly when it is no f64 literal, which covers every
\* text with a marker behind the number (such as 'm') but not the exponent
\* forms, "inf" or "NaN", which are accepted with their f64 value. No parser
\* returns a default value.
C20_OnlyOwnMarkers ==
    /\ (Applied("parse_cpu_nanoseconds") /\ ~EndsWith(QuantityText, <<"n">>)) =>
           Ret = Err(Msg("cpu_format") \o QuantityText)
    /\ (Applied("parse_memory_ki") /\ ~EndsWith(QuantityText, <<"K", "i">>)) =>
           Ret = Err(Msg("memory_format") \o QuantityText)
    /\ Applied("parse_cpu_capacity") =>
           /\ Ret.ok = (IsPlainDecimal(QuantityText) \/ IsOtherF64Literal(QuantityText))
           /\ ~Ret.ok => Ret = Err(Msg("cpu_capacity") \o QuantityText)
           /\ (\E q \in QuantityNumbers, m \in QuantityMarkers \ {<<>>} :
                  IsPlainDecimal(q) /\ QuantityText = q \o m) =>
                  ~Ret.ok

\* the CPU capacity "5m" was refused
C20_Witness ==
    /\ Applied("parse_cpu_capacity")
    /\ QuantityText = <<"5", "m">>
    /\ Ret = Err(Msg("cpu_capacity") \o <<"5", "m">>)

\* ---------------------------------------------------------------- C21
\* the text without its final "Ki"
BeforeKi(t) == SubSeq(t, 1, Len(t) - 2)

\* the text is digits, one at least, then "Ki", and the digits are a u64
IsDigitsKi(t) ==
    /\ EndsWith(t, <<"K", "i">>)
    /\ BeforeKi(t) # <<>>
    /\ AllDigits(BeforeKi(t))
    /\ NumeralLeq(StripZeros(BeforeKi(t)), U64Max)

\* C21 as stated: parse_memory_ki of digits and "Ki" is the number the
\* digits denote, and for every matched node whose quantities parse the
\* call reports memory_bytes equal to 1024 times the usage in Ki.
C21_Original ==
    /\ (Applied("parse_memory_ki") /\ IsDigitsKi(QuantityText)) =>
           Ret = Ok(StripZeros(BeforeKi(QuantityText)))
    /\ (Combined /\ Unmatched = {} /\ Unparsed = {}) =>
           /\ Ret.ok
           /\ \A i \in 1..Len(Ms) :
                 Ret.value[i].memory_bytes =
                     NumeralTimes(parse_memory_ki(Ms[i].memory).value, 1024)

\* ---------------------------------------------------------------- C22
\* the text without its final 'n'
BeforeN(t) == SubSeq(t, 1, Len(t) - 1)

\* the CPU usage of the i-th metrics entry is digits and 'n', and the CPU
\* capacity of its node is digits
PlainCpu(i) ==
    /\ EndsWith(Ms[i].cpu, <<"n">>)
    /\ BeforeN(Ms[i].cpu) # <<>> /\ AllDigits(BeforeN(Ms[i].cpu))
    /\ NodeOf(i).cpu # <<>> /\ AllDigits(NodeOf(i).cpu)

\* the usage of the i-th metrics entry exceeds the capacity of its node: more
\* nanocores than 10^9 times the cores, more Ki than the node has
CpuAbove(i) ==
    ~NumeralLeq(StripZeros(BeforeN(Ms[i].cpu)),
                StripZeros(NodeOf(i).cpu \o [z \in 1..9 |-> "0"]))
MemoryAbove(i) ==
    ~NumeralLeq(parse_memory_ki(Ms[i].memory).value,
                parse_memory_ki(NodeOf(i).memory).value)

\* C22: for every entry of a successful combine_with_nodes, cpu_cores times
\* 10^9 is the nanocore count, cpu_percent is 100 times cpu_cores over the
\* CPU capacity and memory_percent is 100 times the usage in Ki over the
\* capacity in Ki; a usage above the capacity gives more than 100 percent.
C22_Percentages ==
    (Combined /\ Ret.ok) =>
        \A i \in 1..Len(Ms) :
            LET info == Ret.value[i]
            IN  /\ PlainCpu(i) =>
                      /\ F64Scale(info.cpu_cores, 9)
                            = F64FromU64(StripZeros(BeforeN(Ms[i].cpu)))
                      /\ info.cpu_percent =
                            F64Scale(F64Div(info.cpu_cores,
                                            F64FromU64(StripZeros(NodeOf(i).cpu))), 2)
                      /\ CpuAbove(i) => F64Gt100(info.cpu_percent)
                /\ info.memory_percent =
                      F64Scale(F64Div(
                          F64FromU64(parse_memory_ki(Ms[i].memory).value),
                          F64FromU64(parse_memory_ki(NodeOf(i).memory).value)), 2)
                /\ MemoryAbove(i) => F64Gt100(info.memory_percent)

\* 2000000010 nanocores on 2 cores and 1879200 Ki on 100 Ki: 2.00000001
\* cores, 100.0000005 percent and 1879200 percent
C22_Witness ==
    /\ Combined
    /\ Ret.ok
    /\ Len(Ms) = 1
    /\ Ms[1].cpu = Field("2000000010n") /\ Ms[1].memory = Field("1879200Ki")
    /\ NodeOf(1).cpu = Field("2") /\ NodeOf(1).memory = Field("100Ki")
    /\ Ret.value[1].cpu_cores = Canon(200000001, 1, -8)
    /\ Ret.value[1].cpu_percent = Canon(1000000005, 1, -7)
    /\ Ret.value[1].memory_percent = Canon(18792, 1, 2)
    /\ F64Gt100(Ret.value[1].cpu_percent)
    /\ F64Gt100(Ret.value[1].memory_percent)

\* ---------------------------------------------------------------- C23
\* a GET of the API server's URL followed by this path, with the token as
\* bearer
IsGetOf(g, path) ==
    /\ g.method = "GET"
    /\ g.url = <<"https://kubernetes.default.svc", path>>
    /\ g.authorization = <<"Bearer ", "token">>

\* C23: every call of get_node_metrics_with_usage issues exactly two GETs,
\* the first to the API server's URL followed by /api/v1/nodes and the second
\* to it followed by /apis/metrics.k8s.io/v1beta1/nodes, both with the bearer
\* token, and none besides: a GET is not repeated when its send or the read of
\* its body fails, the failure is what the call returns, and a later call
\* issues its two GETs again whatever the earlier call received.
C23_OneGetPerFetch ==
    /\ [](/\ Len(gets) = 2 * calls
          /\ \A c \in 1..calls :
                /\ IsGetOf(gets[2 * c - 1], "/api/v1/nodes")
                /\ IsGetOf(gets[2 * c], "/apis/metrics.k8s.io/v1beta1/nodes")
          /\ (KubeReturned /\ \E side \in Sides : FetchFailed(side)) =>
                /\ FailsWhole(KubeOut)
                /\ KubeOut # Panic
                /\ (FetchFailed("nodes") \/ ~BadBody("nodes")) =>
                      KubeOut.error.kind = "HttpError")
    /\ [][gets' # gets => (kube_pc \in {"idle", "returned"} /\ calls' = calls + 1)]_vars

\* the second call: the send of its inventory GET failed, four GETs have been
\* issued in all, and the call returned the HTTP error
C23_Witness ==
    /\ calls = 2
    /\ KubeReturned
    /\ cluster["nodes"] = [k |-> "send_err"]
    /\ cluster["metrics"].k = "body"
    /\ Len(gets) = 4
    /\ IsGetOf(gets[3], "/api/v1/nodes")
    /\ IsGetOf(gets[4], "/apis/metrics.k8s.io/v1beta1/nodes")
    /\ KubeOut = Err(HttpError("send"))

\* the response handle_client owes to one request: a function of the text
\* read, the configured key and the backend's answer, of nothing else
ResponseFor(text, key, answer) ==
    LET req == Request_parse(text)
    IN  IF req = None
        THEN send_response("400 Bad Request", "Invalid request")
        ELSE IF Unwrap(req).api_key = None
        THEN send_response("401 Unauthorized", "Missing API key")
        ELSE IF Unwrap(Unwrap(req).api_key) # key
        THEN send_response("403 Forbidden", "Invalid API key")
        ELSE IF Route(Unwrap(req).path) = "root"
        THEN send_response("200 OK", "{\"healthy\": true}")
        ELSE IF Route(Unwrap(req).path) = "favicon"
        THEN send_response("404 Not Found", "Favicon not found")
        ELSE LET out == chat_handler(Unwrap(req).method, Unwrap(req).body)
             IN  IF ~IsSome(out.call)
                 THEN out.reply
                 ELSE IF Unwrap(answer).ok
                 THEN send_response("200 OK", Unwrap(answer).text)
                 ELSE send_response("500 Internal Server Error",
                                    "Failed to generate response")

\* every per-request variable holds its initial value
FreshRequest ==
    /\ stream = None
    /\ request_str = None
    /\ request = None
    /\ key_check = "none"
    /\ handler = "none"
    /\ ~body_read
    /\ agent_calls = <<>>
    /\ response = None
    /\ agent_result = None
    /\ sends = 0
    /\ wire = <<>>

\* C24: no state is shared across requests. On every connection, whatever
\* was served before, the response is the one determined by the bytes read,
\* the configured key and the backend's answer; each connection is accepted
\* with every per-request variable at its initial value, and the configured
\* key never changes
C24_NoSharedState ==
    /\ [](Done => response = ResponseFor(Text, api_key, agent_result))
    /\ [][/\ api_key' = api_key
          /\ (IsSome(stream') /\ stream = None) => FreshRequest]_vars

\* a second connection is answered 401 after the first one was served
C24_Witness ==
    /\ conn = 2
    /\ served = <<1>>
    /\ Done
    /\ Answered("401 Unauthorized")
    /\ ~IsSome(Unwrap(Request_parse(Text)).api_key)

\* the configured key holds a colon
KeyHasColon == \E i \in 1..Len(api_key) : api_key[i] = Colon

C25_ColonKeyRejected ==
    /\ KeyHasColon
    /\ Done
    /\ Decoded
    /\ IsSome(DeclaredApiKey(Text))
    /\ Answered("403 Forbidden")

\* C26: with the empty string as configured key (CHAT_API_KEY unset), a
\* decoded request whose X-Api-Key header has an empty value passes the key
\* check and is dispatched to the handler of its path, while a decoded
\* request with no X-Api-Key header is still answered 401 and not dispatched.
C26_EmptyKey ==
    (api_key = <<>> /\ Decoded /\ Done) =>
        /\ DeclaredApiKey(Text) = Some(<<>>) =>
              /\ key_check = "ok"
              /\ handler = Route(Unwrap(request).path)
              /\ ~Answered("401 Unauthorized")
              /\ ~Answered("403 Forbidden")
        /\ DeclaredApiKey(Text) = None =>
              /\ key_check = "401"
              /\ Answered("401 Unauthorized")
              /\ NothingDispatched

\* a server with the empty key has served 200 to GET / with the header
\* "X-Api-Key:"
C26_Witness ==
    /\ api_key = <<>>
    /\ Done
    /\ Authenticated
    /\ LastNamed(HeaderSection(Text), Str("x_api_key"))
          = Some(<<"X", "-", "A", "p", "i", "-", "K", "e", "y", ":">>)
    /\ handler = "root"
    /\ Answered("200 OK")

\* a server with the empty key has answered 401 to a request without the header
C26_NoHeaderIs401 ==
    /\ api_key = <<>>
    /\ Done
    /\ Decoded
    /\ DeclaredApiKey(Text) = None
    /\ Answered("401 Unauthorized")

\* the statuses handle_client answers with
Statuses ==
    {"400 Bad Request", "401 Unauthorized", "403 Forbidden", "404 Not Found",
     "405 Method Not Allowed", "200 OK", "500 Internal Server Error"}

\* C27: on every accepted connection whose read succeeded, empty and
\* undecodable inputs included, handle_client calls send_response exactly
\* once on every control path: it never returns without having called it,
\* never calls it twice, and each call hands over one of the seven statuses;
\* before the call nothing has been sent, and when the read fails nothing is.
C27_ExactlyOneResponse ==
    /\ [](/\ sends \in {0, 1}
          /\ (pc = "return" /\ HasRead) =>
                (sends = 1 /\ IsSome(response)
                 /\ Unwrap(response).status \in Statuses)
          /\ (pc = "return" /\ ~HasRead) => (sends = 0 /\ response = None)
          /\ pc \in {"read", "auth", "dispatch", "chat"} => sends = 0
          /\ pc = "done" => sends = 1)
    /\ [][sends' > sends =>
             (sends' = 1 /\ pc' = "done" /\ response = None /\ IsSome(response'))]_vars

\* handle_client has returned after the backend failed, with one response, 500
C27_Witness ==
    /\ pc = "return"
    /\ HasRead
    /\ agent_result = Some([ok |-> FALSE, text |-> ""])
    /\ sends = 1
    /\ Answered("500 Internal Server Error")

\* handle_client has returned after reading zero bytes, with one response, 400
C27_EmptyRead ==
    /\ pc = "return"
    /\ HasRead
    /\ Text = <<>>
    /\ sends = 1
    /\ Answered("400 Bad Request")

\* the digits of a content-length line "Content-Length: <digits>"
LengthDigits(line) == SubSeq(line, Len(Txt("hdr_len")), Len(line))

\* the text with every header line "Content-Length: 5" declaring v instead
WithLength(text, v) ==
    LET ls == lines(text)
        e  == HeaderEnd(ls)
    IN  Unlines([i \in 1..Len(ls) |->
                    IF i \in 2..(e - 1) /\ ls[i] = Txt("hdr_len")
                    THEN SubSeq(ls[i], 1, Len(ls[i]) - 1) \o v
                    ELSE ls[i]])

\* the header section declares the positive length 5 on some line
DeclaresFive(text) ==
    \E i \in 1..Len(HeaderSection(text)) : HeaderSection(text)[i] = Txt("hdr_len")

\* the body Request::parse yields for the text (None when it does not decode)
BodyOf(text) ==
    LET r == Request_parse(text) IN IF r = None THEN None ELSE Unwrap(r).body

\* the characters of the text that are no line terminators
Unterminated(text) == SelectSeq(text, LAMBDA c : c # CR /\ c # LF)

\* C28 as stated: for two inputs that differ only in a positive
\* content-length value, the decoder yields the same body.
C28_Original ==
    (Decoded /\ DeclaresFive(Text)) =>
        \A v \in {<<"7">>, LengthDigits(Txt("hdr_len_big"))} :
            BodyOf(WithLength(Text, v)) = Unwrap(request).body

\* what holds: the same body for every positive value that fits an i32, and
\* a body that keeps every character after the header terminator whatever
\* the declared length
C28_FlagWithinI32 ==
    /\ (Decoded /\ DeclaresFive(Text)) =>
          \A v \in {<<"7">>, <<"1">>, <<"9", "9", "9">>} :
              BodyOf(WithLength(Text, v)) = Unwrap(request).body
    /\ (Decoded /\ IsSome(Unwrap(request).body)) =>
          Unterminated(Unwrap(Unwrap(request).body))
              = Unterminated(AfterHeaderTerminator(Text))

\* the positions in the header section of the lines with this name
Occurrences(text, name) ==
    {i \in 1..Len(HeaderSection(text)) : NameIs(HeaderSection(text)[i], name)}

\* the length a content-length line declares, 0 when its value is no i32
LengthOn(line) == unwrap_or(parse_i32(FieldValue(line)), 0)

\* C29: when a header occurs more than once in the header section the last
\* occurrence wins: the key of the decoded request is the value of the last
\* X-Api-Key line, and the body is present exactly when the last
\* content-length line alone declares a positive length, so a later zero or
\* non-numeric content-length cancels an earlier positive one.
C29_LastOccurrenceWins ==
    Decoded =>
        LET hdr  == HeaderSection(Text)
            keys == Occurrences(Text, Str("x_api_key"))
            lens == Occurrences(Text, Str("content_length"))
        IN  /\ Cardinality(keys) >= 2 =>
                  Unwrap(request).api_key = Some(FieldValue(hdr[SetMax(keys)]))
            /\ Cardinality(lens) >= 2 =>
                  /\ IsSome(Unwrap(request).body) <=> LengthOn(hdr[SetMax(lens)]) > 0
                  /\ (\E i \in lens : LengthOn(hdr[i]) > 0)
                      /\ LengthOn(hdr[SetMax(lens)]) = 0
                        => Unwrap(request).body = None

\* a request with a positive content-length line followed by a non-numeric
\* one has been decoded without a body
C29_Witness ==
    /\ Decoded
    /\ LET hdr  == HeaderSection(Text)
           lens == Occurrences(Text, Str("content_length"))
       IN  /\ Cardinality(lens) = 2
           /\ LengthOn(hdr[SetMin(lens)]) > 0
           /\ parse_i32(FieldValue(hdr[SetMax(lens)])) = None
    /\ AfterHeaderTerminator(Text) # <<>>
    /\ Unwrap(request).body = None

\* a request with two different X-Api-Key lines has been decoded with the
\* key of the second
C29_LastKey ==
    /\ Decoded
    /\ LET hdr  == HeaderSection(Text)
           keys == Occurrences(Text, Str("x_api_key"))
       IN  /\ Cardinality(keys) = 2
           /\ FieldValue(hdr[SetMin(keys)]) # FieldValue(hdr[SetMax(keys)])
           /\ Unwrap(request).api_key = Some(FieldValue(hdr[SetMax(keys)]))

\* the Result the fetch of this side completed with
ResultOf(side) == Unwrap(fut[side].res)

\* C30: get_node_metrics_with_usage returns only after both fetches have
\* finished, whatever their outcomes: a failed fetch does not end the call
\* while the other is still running, and the other still completes with its
\* own Result. When the inventory fetch failed the call returns its error,
\* whatever the metrics fetch gave (so also when both failed); the metrics
\* error is returned only when the inventory result is Ok.
C30_BothFinishThenInventoryFirst ==
    /\ [](KubeReturned =>
            /\ \A side \in Sides :
                  /\ fut[side].st = "ready"
                  /\ side \in arrived
                  /\ ResultOf(side) = (IF side = "nodes"
                                       THEN get_nodes(cluster[side])
                                       ELSE get_node_metrics(cluster[side]))
            /\ ~ResultOf("nodes").ok => KubeOut = ResultOf("nodes")
            /\ (ResultOf("nodes").ok /\ ~ResultOf("metrics").ok) =>
                  KubeOut = ResultOf("metrics"))
    /\ [][/\ (kube_pc = "join" /\ kube_pc' # "join") =>
                \A side \in Sides : fut[side].st = "ready"
          /\ \A side \in Sides :
                (kube_pc = "join" /\ fut[side].st = "ready") =>
                    fut'[side] = fut[side]]_vars

\* both fetches failed with different errors, the metrics fetch first, and
\* the call returned the error of the inventory fetch
C30_Witness ==
    /\ KubeReturned
    /\ cluster["nodes"].k = "body_err"
    /\ cluster["metrics"].k = "send_err"
    /\ ResultOf("nodes") = Err(HttpError("body"))
    /\ ResultOf("metrics") = Err(HttpError("send"))
    /\ KubeOut = Err(HttpError("body"))

\* the metrics fetch has failed while the inventory fetch is still running
C30_OneFailedOtherRunning ==
    /\ kube_pc = "join"
    /\ fut["metrics"].st = "ready"
    /\ ~ResultOf("metrics").ok
    /\ fut["nodes"].st = "sending"
    /\ kube_out = None

====
